---- MODULE Spec2Model ----
(***************************************************************************)
(* Model of the myers package (src/myers/myers.go): the Differ object, its *)
(* pipeline stages OptimizedDiff, AlgorithmDiff and MergeShiftDiffCleanup, *)
(* the entry points Diff and LineDiff, and the slice helpers they use.     *)
(*                                                                         *)
(* A Go string is a sequence of units: a unit is either the UTF-8 encoding *)
(* of one code point (written as the code point) or one byte that is not   *)
(* valid UTF-8 (BadByte).  A []rune is a sequence of code points.          *)
(* Sequences are 1-based here and 0-based in the source.                   *)
(***************************************************************************)
EXTENDS Integers, Sequences, FiniteSets, TLC

\* The Differ's fields; calls is the list of the methods called on it since
\* New, limit the number of calls its client makes, out the string the last
\* call returned, status how the last call ended; peer is a second Differ the
\* same process has made; heap is the memory of the process where the
\* specification follows the arrays behind the slices.
VARIABLES Edits, Old, New, OldStr, NewStr, calls, limit, out, status, peer, heap

vars == <<Edits, Old, New, OldStr, NewStr, calls, limit, out, status, peer, heap>>

\* ---- bounds of the model ------------------------------------------------
MaxLen == 3
MaxCalls == 2
MaxTextLen == 5
MaxSubLen == 4
MaxLongOld == 5
MaxLongNew == 6

\* ---- program constants --------------------------------------------------
EditRetain == 10
EditDelete == 20
EditInsert == 30

\* unicode/utf8: the replacement rune, the largest rune, the surrogate range
RuneError == 65533
MaxRune == 1114111
SurrogateMin == 55296
SurrogateMax == 57343
\* the unit that stands for a byte that is not valid UTF-8 (it is no code
\* point, so it differs from every rune)
BadByte == -1
LineFeed == 10
Space == 32
Plus == 43
Minus == 45
Quote == 34
Backslash == 92

\* the units the input strings are built from: a line feed, the letter a
\* and an invalid byte
Units == {LineFeed, 97, BadByte}
\* the two letters the longer inputs are built from
Letters == {97, 98}
\* the units the texts of several lines are built from
LineUnits == {LineFeed, 97}
\* the units of texts of several lines over two letters
TextUnits == {LineFeed, 97, 98}
\* the runes the inputs of the helper functions are built from
SubRunes == {97, 98, 99}

StringsOver(U, n) == UNION {[1..k -> U] : k \in 0..n}

Min(a, b) == IF a < b THEN a ELSE b

\* the value v handed to F: a local variable that is assigned once (v is
\* computed once, whatever the number of times F reads it)
With(v, F(_)) == CHOOSE y \in {F(r) : r \in {v}} : TRUE

\* ---- conversions --------------------------------------------------------
\* []rune(s): every invalid byte decodes to the replacement rune
DecodeRune(u) == IF u = BadByte THEN RuneError ELSE u
Runes(s) == [i \in 1..Len(s) |-> DecodeRune(s[i])]

\* strings.Builder.WriteRune / string(rune): a rune that is not a valid
\* scalar value is written as the replacement rune
EncodeRune(r) ==
  IF r < 0 \/ r > MaxRune \/ (r >= SurrogateMin /\ r <= SurrogateMax)
  THEN RuneError ELSE r
StringOf(rs) == [i \in 1..Len(rs) |-> EncodeRune(rs[i])]

\* capacity the runtime gives the slice made by []rune(s) of n runes: the
\* 4n bytes are rounded up to the allocator's size class
\* the size classes of the allocator above 512 bytes, and its page size
LargerSizeClasses ==
  {576, 640, 704, 768, 896, 1024, 1152, 1280, 1408, 1536, 1792, 2048, 2304,
   2688, 3072, 3200, 3456, 4096, 4864, 5376, 6144, 6528, 6784, 6912,
   8192, 9472, 9728, 10240, 10880, 12288, 13568, 14336, 16384, 18432, 19072,
   20480, 21760, 24576, 27264, 28672, 32768}
MaxSmallSize == 32768
PageSize == 8192

RoundUpSize(b) ==
  IF b = 0 THEN 0
  ELSE IF b <= 32 THEN ((b + 7) \div 8) * 8
  ELSE IF b <= 256 THEN ((b + 15) \div 16) * 16
  ELSE IF b <= 512 THEN ((b + 31) \div 32) * 32
  ELSE IF b <= MaxSmallSize
  THEN CHOOSE c \in LargerSizeClasses :
         c >= b /\ \A c2 \in LargerSizeClasses : c2 >= b => c <= c2
  ELSE ((b + PageSize - 1) \div PageSize) * PageSize
RuneCap(n) == RoundUpSize(4 * n) \div 4

Edit(kind, data) == [Kind |-> kind, Data |-> data]

\* ---- helpers ------------------------------------------------------------
\* the prefix cut one symbol late: a[:i+1] in place of a[:i]
findCommonPrefixLate(a, b) ==
  IF Len(a) > 0 /\ Len(b) > 0
  THEN LET l == Min(Len(a), Len(b))
           diff == {i \in 0..(l - 1) : a[i + 1] # b[i + 1]}
       IN IF diff = {} THEN <<>>
          ELSE LET i == CHOOSE m \in diff : \A n \in diff : m <= n
               IN SubSeq(a, 1, i + 1)
  ELSE <<>>

findCommonPrefix(a, b) ==
  IF Len(a) > 0 /\ Len(b) > 0
  THEN LET l == Min(Len(a), Len(b))
           diff == {i \in 0..(l - 1) : a[i + 1] # b[i + 1]}
       IN IF diff = {} THEN <<>>
          ELSE LET i == CHOOSE m \in diff : \A n \in diff : m <= n
               IN SubSeq(a, 1, i)
  ELSE <<>>

findCommonSuffix(a, b) ==
  LET la == Len(a)
      lb == Len(b)
      l == Min(la, lb)
      diff == {i \in 0..(l - 1) : a[la - i] # b[lb - i]}
  IN IF diff = {} THEN <<>>
     ELSE LET i == CHOOSE m \in diff : \A n \in diff : m <= n
          IN SubSeq(a, la - i + 1, la)

runesHavePrefix(str, expect) ==
  IF Len(str) = 0 \/ Len(expect) = 0 \/ Len(expect) > Len(str) THEN FALSE
  ELSE SubSeq(str, 1, Len(expect)) = expect

runesHaveSuffix(str, expect) ==
  IF Len(str) = 0 \/ Len(expect) = 0 \/ Len(expect) > Len(str) THEN FALSE
  ELSE SubSeq(str, Len(str) - Len(expect) + 1, Len(str)) = expect

\* 0-based index of the first occurrence, -1 when there is none
runesIndex(haystack, needle) ==
  IF Len(needle) > 0 /\ Len(needle) <= Len(haystack)
  THEN LET hits == {s \in 0..(Len(haystack) - Len(needle)) :
                      SubSeq(haystack, s + 1, s + Len(needle)) = needle}
       IN IF hits = {} THEN -1
          ELSE CHOOSE m \in hits : \A n \in hits : m <= n
  ELSE -1

\* the least length rounded down in place of up
HalfRoundedDown(al) == al \div 2

\* minLength (line 615): half of the longer length, rounded up
SubstringMinLength(al) == (al + 1) \div 2

\* position of the first match in the order the loops visit (length
\* descending, then i ascending, then j ascending), in the longer sequence
findCommonSubstring(a0, b0) ==
  LET a == IF Len(a0) < Len(b0) THEN b0 ELSE a0
      b == IF Len(a0) < Len(b0) THEN a0 ELSE b0
      al == Len(a)
      bl == Len(b)
      minLength == SubstringMinLength(al)
      hit(length, i) == \E j \in 0..(bl - length) :
                           SubSeq(a, i + 1, i + length) = SubSeq(b, j + 1, j + length)
      lengths == {n \in minLength..bl : \E i \in 0..(al - n) : hit(n, i)}
  IN IF bl >= minLength /\ lengths # {}
     THEN LET length == CHOOSE m \in lengths : \A n \in lengths : m >= n
              i == CHOOSE m \in {p \in 0..(al - length) : hit(length, p)} :
                     \A n \in {p \in 0..(al - length) : hit(length, p)} : m <= n
          IN SubSeq(a, i + 1, i + length)
     ELSE <<>>

\* rebuildStringFromEdits (lines 664-685): the old and the new string
RECURSIVE rebuildOld(_), rebuildNew(_)
rebuildOld(es) ==
  IF es = <<>> THEN <<>>
  ELSE (IF Head(es).Kind \in {EditRetain, EditDelete} THEN StringOf(Head(es).Data)
        ELSE <<>>)
       \o rebuildOld(Tail(es))
rebuildNew(es) ==
  IF es = <<>> THEN <<>>
  ELSE (IF Head(es).Kind \in {EditRetain, EditInsert} THEN StringOf(Head(es).Data)
        ELSE <<>>)
       \o rebuildNew(Tail(es))

\* the "Edits add up to original text" assertion as the code states it
EditsAddUp(es, oldStr, newStr) ==
  (oldStr = rebuildOld(es)) = (newStr = rebuildNew(es))

\* ---- AlgorithmDiff: the shortest-edit-script solver ---------------------
\* An operation ends "ok", or is cut short by a failed invariant.Always
\* ("assert") or by a run-time panic of a slice or index expression
\* ("panic"); assertions are compiled in (the default build).

\* the snake as an if in place of the loop: one step at most
SnakeOnce(old, new, x, y) ==
  IF x < Len(old) /\ y < Len(new) /\ old[x + 1] = new[y + 1] THEN x + 1 ELSE x

\* the snake: x after stepping over the run of equal symbols from (x, y)
RECURSIVE Snake(_, _, _, _)
Snake(old, new, x, y) ==
  IF x < Len(old) /\ y < Len(new) /\ old[x + 1] = new[y + 1]
  THEN Snake(old, new, x + 1, y + 1)
  ELSE x

\* the search stopping as soon as old is consumed
ConvertedOld(old, new, x, y) == x >= Len(old)

\* line 514: the corner of the edit graph is reached
FullyConverted(old, new, x, y) == x >= Len(old) /\ y >= Len(new)

\* the start point that takes no step along x for a Delete
StartXNoStep(isInsert, prevX) == prevX

\* lines 479-485: the start point on the diagonal, from the diagonal above
\* (an Insert: x stays) or from the one below (a Delete: x grows by one)
StartX(isInsert, prevX) == IF isInsert THEN prevX ELSE prevX + 1

\* one iteration of the loop over the diagonals k of one depth
KStep(old, new, maxEdits, depth, k, tracker, prevTracker) ==
  LET kOffset == maxEdits + k
      Idx == 0..(2 * maxEdits)
      cmpReads == IF k # -depth /\ k # depth THEN {kOffset + 1, kOffset - 1} ELSE {}
  IN IF ~(cmpReads \subseteq Idx) THEN [st |-> "panic", tracker |-> tracker, x |-> 0, y |-> 0]
     ELSE
     LET isInsert == k = -depth \/ (k # depth /\ tracker[kOffset + 1] > tracker[kOffset - 1])
         from == IF isInsert THEN kOffset + 1 ELSE kOffset - 1
     IN IF from \notin Idx THEN [st |-> "panic", tracker |-> tracker, x |-> 0, y |-> 0]
        ELSE
        LET prevX == tracker[from]
            x0 == StartX(isInsert, prevX)
            y0 == x0 - k
            asserted ==
              /\ x0 >= k
              /\ tracker[kOffset] >= prevTracker[kOffset]
              /\ (k < depth => x0 >= prevTracker[kOffset + 1])
              /\ (k > -depth => x0 >= prevTracker[kOffset - 1])
        IN IF ~asserted THEN [st |-> "assert", tracker |-> tracker, x |-> x0, y |-> y0]
           ELSE
           LET x == Snake(old, new, x0, y0)
               y == x - k
               fullyConverted == FullyConverted(old, new, x, y)
           IN [st |-> IF fullyConverted THEN "done" ELSE "next",
               tracker |-> [tracker EXCEPT ![kOffset] = x], x |-> x, y |-> y]

\* the loop over k = -depth, -depth+2, ..., depth
RECURSIVE KLoop(_, _, _, _, _, _, _)
KLoop(old, new, maxEdits, depth, k, tracker, prevTracker) ==
  IF k > depth THEN [st |-> "continue", tracker |-> tracker, x |-> 0, y |-> 0]
  ELSE With(KStep(old, new, maxEdits, depth, k, tracker, prevTracker),
            LAMBDA r :
              IF r.st = "next"
              THEN KLoop(old, new, maxEdits, depth, k + 2, r.tracker, prevTracker)
              ELSE r)

\* the loop over depth = 0..maxEdits; trace gets a copy of tracker per depth
RECURSIVE DepthLoop(_, _, _, _, _, _)
DepthLoop(old, new, maxEdits, depth, tracker, trace) ==
  IF depth > maxEdits
  THEN [st |-> "exhausted", trace |-> trace, depth |-> depth, x |-> 0, y |-> 0]
  ELSE With(KLoop(old, new, maxEdits, depth, -depth, tracker, tracker),
            LAMBDA r :
              IF r.st \in {"assert", "panic"}
              THEN [st |-> r.st, trace |-> trace, depth |-> depth, x |-> r.x, y |-> r.y]
              ELSE IF r.st = "done"
              THEN [st |-> "done", trace |-> Append(trace, r.tracker), depth |-> depth,
                    x |-> r.x, y |-> r.y]
              ELSE DepthLoop(old, new, maxEdits, depth + 1, r.tracker,
                             Append(trace, r.tracker)))

ForwardPass(old, new) ==
  LET maxEdits == Len(old) + Len(new)
  IN DepthLoop(old, new, maxEdits, 0, [i \in 0..(2 * maxEdits) |-> 0], <<>>)

\* the walk back from the corner; acc is what has been appended so far
RECURSIVE BackwardWalk(_, _, _, _, _, _, _)
BackwardWalk(old, new, trace, depth, x, y, acc) ==
  IF depth < 0 THEN [st |-> "ok", edits |-> acc]
  ELSE
  LET maxEdits == Len(old) + Len(new)
      Idx == 0..(2 * maxEdits)
      tracker == trace[depth + 1]
      k == x - y
      kOffset == maxEdits + k
      cmpReads == IF k # -depth /\ k # depth THEN {kOffset + 1, kOffset - 1} ELSE {}
  IN IF ~(cmpReads \subseteq Idx) THEN [st |-> "panic", edits |-> acc]
     ELSE
     LET isInsert == k = -depth \/ (k # depth /\ tracker[kOffset + 1] > tracker[kOffset - 1])
         prevK == IF isInsert THEN k + 1 ELSE k - 1
     IN IF (maxEdits + prevK) \notin Idx THEN [st |-> "panic", edits |-> acc]
        ELSE
        LET prevX == tracker[maxEdits + prevK]
            prevY == prevX - prevK
            right == x
            back == IF x > prevX /\ y > prevY THEN Min(x - prevX, y - prevY) ELSE 0
            left == x - back
            retained == IF left < right
                        THEN Append(acc, Edit(EditRetain, SubSeq(old, left + 1, right)))
                        ELSE acc
            sliceOk == /\ (left < right => left >= 0 /\ right <= Len(old))
                       /\ (depth > 0 /\ ~isInsert => prevX >= 0 /\ prevX < Len(old))
                       /\ (depth > 0 /\ isInsert => prevY >= 0 /\ prevY < Len(new))
        IN IF ~sliceOk THEN [st |-> "panic", edits |-> acc]
           ELSE
           LET withEdit ==
                 IF depth > 0 /\ ~isInsert
                 THEN Append(retained, Edit(EditDelete, <<old[prevX + 1]>>))
                 ELSE IF depth > 0 /\ isInsert
                 THEN Append(retained, Edit(EditInsert, <<new[prevY + 1]>>))
                 ELSE retained
           IN BackwardWalk(old, new, trace, depth - 1, prevX, prevY, withEdit)

\* the deferred slices.Reverse left out
ReverseOmitted(s) == s

Reverse(s) == [i \in 1..Len(s) |-> s[Len(s) + 1 - i]]

\* the deferred reversal run over all of d.Edits
ReverseAll(edits, walked) == Reverse(edits \o walked)

\* lines 464-468: the walk appends its edits last to first behind the edits
\* already there, and the deferred slices.Reverse(d.Edits[before:]) turns
\* round what the walk appended
ReverseAppended(edits, walked) == edits \o Reverse(walked)

\* the body of AlgorithmDiff on a Differ d (a record of the five fields);
\* the result is the Edits it leaves and how it ended.  With both strings
\* empty and a sequence that is not, the Always of line 454 fails (line 448
\* lets the pair pass, line 453 takes it); the Always of line 459 cannot
\* fail, NewStr being non-empty behind line 453
AlgorithmDiffBody(d) ==
  IF Len(d.Old) = 0 /\ Len(d.New) = 0 THEN [st |-> "ok", Edits |-> d.Edits]
  ELSE IF d.OldStr = d.NewStr /\ d.OldStr # <<>>
  THEN [st |-> "ok", Edits |-> Append(d.Edits, Edit(EditRetain, d.Old))]
  ELSE IF d.NewStr = <<>>
  THEN IF d.OldStr = <<>> THEN [st |-> "assert", Edits |-> d.Edits]
       ELSE [st |-> "ok", Edits |-> Append(d.Edits, Edit(EditDelete, d.Old))]
  ELSE IF d.OldStr = <<>>
  THEN [st |-> "ok", Edits |-> Append(d.Edits, Edit(EditInsert, d.New))]
  ELSE
  With(ForwardPass(d.Old, d.New),
       LAMBDA f :
         IF f.st \in {"assert", "panic"} THEN [st |-> f.st, Edits |-> d.Edits]
         ELSE With(BackwardWalk(d.Old, d.New, f.trace, Len(f.trace) - 1,
                                Len(d.Old), Len(d.New), <<>>),
                   LAMBDA b : [st |-> b.st, Edits |-> ReverseAppended(d.Edits, b.edits)]))

\* the deferred checks of AlgorithmDiff (lines 424-440)
AlgorithmDiff(d) ==
  With(AlgorithmDiffBody(d),
       LAMBDA r :
         LET cond == (StringOf(d.Old) = d.OldStr) = (StringOf(d.New) = d.NewStr)
         IN IF r.st = "ok" /\ cond /\ ~EditsAddUp(r.Edits, d.OldStr, d.NewStr)
            THEN [st |-> "assert", Edits |-> r.Edits]
            ELSE r)

\* ---- OptimizedDiff: trimming, trivial cases, sandwich, splitting ---------
\* the closure recurse (lines 377-410) on the clone (old, new) of d
RECURSIVE recurse(_, _, _, _)
recurseSplit(d, old, new, edits, substr) ==
  LET newSubstrStart == runesIndex(new, substr)
      oldSubstrStart == runesIndex(old, substr)
  IN With(recurse(d, SubSeq(old, 1, oldSubstrStart),
                     SubSeq(new, 1, newSubstrStart), edits),
          LAMBDA left :
            IF left.st # "ok" THEN left
            ELSE recurse(d, SubSeq(old, oldSubstrStart + Len(substr) + 1, Len(old)),
                            SubSeq(new, newSubstrStart + Len(substr) + 1, Len(new)),
                            Append(left.Edits, Edit(EditRetain, substr))))

recurse(d, old, new, edits) ==
  With(findCommonSubstring(old, new),
       LAMBDA substr :
         IF Len(substr) = 0
         THEN AlgorithmDiff([Edits |-> edits, Old |-> old, New |-> new,
                             OldStr |-> d.OldStr, NewStr |-> d.NewStr])
         ELSE recurseSplit(d, old, new, edits, substr))

\* the sandwich cases (lines 356-375): x and y are where new lies in old and
\* old lies in new
DeleteSandwich(old, new, edits, x) ==
  edits \o << Edit(EditDelete, SubSeq(old, 1, x)),
              Edit(EditRetain, SubSeq(old, x + 1, x + Len(new))),
              Edit(EditDelete, SubSeq(old, x + Len(new) + 1, Len(old))) >>

InsertSandwich(old, new, edits, y) ==
  edits \o << Edit(EditInsert, SubSeq(new, 1, y)),
              Edit(EditRetain, SubSeq(new, y + 1, y + Len(old))),
              Edit(EditInsert, SubSeq(new, y + Len(old) + 1, Len(new))) >>

\* the part of OptimizedDiff after the common affixes are cut off
\* (lines 346-418), on the remainders old and new
OptimizedDiffMiddle(d, old, new, edits) ==
  LET isSimpleDelete == Len(old) > 0 /\ Len(new) = 0
      isSimpleInsert == Len(old) = 0 /\ Len(new) > 0
  IN IF isSimpleDelete THEN [st |-> "ok", Edits |-> Append(edits, Edit(EditDelete, old))]
     ELSE IF isSimpleInsert THEN [st |-> "ok", Edits |-> Append(edits, Edit(EditInsert, new))]
     ELSE With(runesIndex(old, new), LAMBDA x :
          With(runesIndex(new, old), LAMBDA y :
            IF x > 0 THEN [st |-> "ok", Edits |-> DeleteSandwich(old, new, edits, x)]
            ELSE IF y > 0 THEN [st |-> "ok", Edits |-> InsertSandwich(old, new, edits, y)]
            ELSE recurse(d, old, new, edits)))

\* the trimming without the deferred append of the common suffix
OptimizedDiffSuffixDropped(d, prefix) ==
  LET e1 == IF Len(prefix) > 0 THEN Append(d.Edits, Edit(EditRetain, prefix)) ELSE d.Edits
      old1 == SubSeq(d.Old, Len(prefix) + 1, Len(d.Old))
      new1 == SubSeq(d.New, Len(prefix) + 1, Len(d.New))
  IN With(findCommonSuffix(old1, new1), LAMBDA suffix :
       OptimizedDiffMiddle(d, SubSeq(old1, 1, Len(old1) - Len(suffix)),
                              SubSeq(new1, 1, Len(new1) - Len(suffix)), e1))

\* the trimming of the common prefix and suffix (lines 330-344) around the
\* middle, and the deferred append of the suffix
OptimizedDiffTrimmed(d, prefix) ==
  LET e1 == IF Len(prefix) > 0 THEN Append(d.Edits, Edit(EditRetain, prefix)) ELSE d.Edits
      old1 == SubSeq(d.Old, Len(prefix) + 1, Len(d.Old))
      new1 == SubSeq(d.New, Len(prefix) + 1, Len(d.New))
  IN With(findCommonSuffix(old1, new1), LAMBDA suffix :
       With(OptimizedDiffMiddle(d, SubSeq(old1, 1, Len(old1) - Len(suffix)),
                                   SubSeq(new1, 1, Len(new1) - Len(suffix)), e1),
            LAMBDA m :
              [st |-> m.st,
               Edits |-> IF Len(suffix) > 0 THEN Append(m.Edits, Edit(EditRetain, suffix))
                         ELSE m.Edits]))

OptimizedDiffBody(d) ==
  IF d.OldStr = d.NewStr
  THEN [st |-> "ok", Edits |-> Append(d.Edits, Edit(EditRetain, d.Old))]
  ELSE IF d.NewStr = <<>>
  THEN [st |-> "ok", Edits |-> Append(d.Edits, Edit(EditDelete, d.Old))]
  ELSE IF d.OldStr = <<>>
  THEN [st |-> "ok", Edits |-> Append(d.Edits, Edit(EditInsert, d.New))]
  ELSE OptimizedDiffTrimmed(d, findCommonPrefix(d.Old, d.New))

\* with the deferred check of lines 308-311
OptimizedDiff(d) ==
  With(OptimizedDiffBody(d),
       LAMBDA r :
         IF r.st = "ok" /\ ~EditsAddUp(r.Edits, d.OldStr, d.NewStr)
         THEN [st |-> "assert", Edits |-> r.Edits]
         ELSE r)

\* ---- MergeShiftDiffCleanup ----------------------------------------------
\* the backing array of the slice []rune(s): the runes, then zeroes up to
\* the capacity (a slice expression may reach past the length)
Backing(rs) == rs \o [i \in 1..(RuneCap(Len(rs)) - Len(rs)) |-> 0]

\* the merge loop (lines 203-242).  m is the loop state: result, the slices
\* old and new as offset and length into the backing arrays, and the
\* lengths of toDelete and toInsert (both start at the offset of old, new)

\* the flush with the Insert run put before the Delete run
MergeFlushInsertFirst(m, r0, hasDelete, hasInsert, toDelete, toInsert, edit) ==
  LET r1 == IF hasInsert THEN Append(r0, Edit(EditInsert, toInsert)) ELSE r0
      nLen1 == IF hasInsert THEN m.nLen - Len(toInsert) ELSE m.nLen
      r2 == IF hasDelete THEN Append(r1, Edit(EditDelete, toDelete)) ELSE r1
      oLen1 == IF hasDelete THEN m.oLen - Len(toDelete) ELSE m.oLen
      adv == Len(edit.Data)
  IN IF nLen1 < 0 THEN [m EXCEPT !.st = "panic", !.result = r1]
     ELSE IF oLen1 < 0 THEN [m EXCEPT !.st = "panic", !.result = r2]
     ELSE IF adv > oLen1 \/ adv > nLen1
     THEN [m EXCEPT !.st = "panic", !.result = Append(r2, edit)]
     ELSE [st |-> "ok", result |-> Append(r2, edit),
           oOff |-> m.oOff + (m.oLen - oLen1) + adv, oLen |-> oLen1 - adv,
           nOff |-> m.nOff + (m.nLen - nLen1) + adv, nLen |-> nLen1 - adv,
           td |-> 0, ti |-> 0]

\* lines 228-240: the runs toDelete and toInsert are flushed, then the
\* Retain edit; r0 is result after the prefix went to the previous Retain
MergeFlush(m, r0, hasDelete, hasInsert, toDelete, toInsert, edit) ==
  LET r1 == IF hasDelete THEN Append(r0, Edit(EditDelete, toDelete)) ELSE r0
      oLen1 == IF hasDelete THEN m.oLen - Len(toDelete) ELSE m.oLen
      r2 == IF hasInsert THEN Append(r1, Edit(EditInsert, toInsert)) ELSE r1
      nLen1 == IF hasInsert THEN m.nLen - Len(toInsert) ELSE m.nLen
      adv == Len(edit.Data)
  IN IF oLen1 < 0 THEN [m EXCEPT !.st = "panic", !.result = r1]
     ELSE IF nLen1 < 0 THEN [m EXCEPT !.st = "panic", !.result = r2]
     ELSE IF adv > oLen1 \/ adv > nLen1
     THEN [m EXCEPT !.st = "panic", !.result = Append(r2, edit)]
     ELSE [st |-> "ok", result |-> Append(r2, edit),
           oOff |-> m.oOff + (m.oLen - oLen1) + adv, oLen |-> oLen1 - adv,
           nOff |-> m.nOff + (m.nLen - nLen1) + adv, nLen |-> nLen1 - adv,
           td |-> 0, ti |-> 0]

\* lines 222-226: the common suffix of the runs goes to the Retain edit
MergeSuffix(m, r0, toDelete, toInsert, edit0, suffix) ==
  MergeFlush(m, r0, TRUE, TRUE,
             SubSeq(toDelete, 1, Len(toDelete) - Len(suffix)),
             SubSeq(toInsert, 1, Len(toInsert) - Len(suffix)),
             Edit(EditRetain, edit0.Data \o suffix))

\* lines 216-221: the common prefix of the runs goes to the previous Retain
MergePrefix(m, toDelete, toInsert, edit0, prefix) ==
  LET n == Len(m.result)
  IN IF Len(prefix) > 0 /\ n = 0 THEN [m EXCEPT !.st = "panic"]
     ELSE With(SubSeq(toDelete, Len(prefix) + 1, Len(toDelete)), LAMBDA toDelete1 :
          With(SubSeq(toInsert, Len(prefix) + 1, Len(toInsert)), LAMBDA toInsert1 :
            MergeSuffix(m,
              IF Len(prefix) > 0
              THEN [m.result EXCEPT ![n] = Edit(m.result[n].Kind, m.result[n].Data \o prefix)]
              ELSE m.result,
              toDelete1, toInsert1, edit0, findCommonSuffix(toInsert1, toDelete1))))

MergeRuns(d, m, edit0, toDelete, toInsert) ==
  IF Len(toDelete) > 0 /\ Len(toInsert) > 0
  THEN MergePrefix(m, toDelete, toInsert, edit0, findCommonPrefix(toInsert, toDelete))
  ELSE MergeFlush(m, m.result, Len(toDelete) > 0, Len(toInsert) > 0,
                  toDelete, toInsert, edit0)

\* case EditRetain (lines 211-240)
MergeRetain(d, m, edit0) ==
  MergeRuns(d, m, edit0,
            SubSeq(Backing(d.Old), m.oOff + 1, m.oOff + m.td),
            SubSeq(Backing(d.New), m.nOff + 1, m.nOff + m.ti))

\* one iteration of the loop of line 205: the switch has no default, an
\* edit of any other Kind is passed over
MergeStep(d, m, edit) ==
  IF edit.Kind = EditDelete
  THEN IF m.oOff + m.td + Len(edit.Data) > RuneCap(Len(d.Old))
       THEN [m EXCEPT !.st = "panic"]
       ELSE [m EXCEPT !.td = m.td + Len(edit.Data)]
  ELSE IF edit.Kind = EditInsert
  THEN IF m.nOff + m.ti + Len(edit.Data) > RuneCap(Len(d.New))
       THEN [m EXCEPT !.st = "panic"]
       ELSE [m EXCEPT !.ti = m.ti + Len(edit.Data)]
  ELSE IF edit.Kind = EditRetain THEN MergeRetain(d, m, edit)
  ELSE m

RECURSIVE MergeLoop(_, _, _, _)
MergeLoop(d, es, i, m) ==
  IF i > Len(es) \/ m.st # "ok" THEN m
  ELSE With(MergeStep(d, m, es[i]), LAMBDA m1 : MergeLoop(d, es, i + 1, m1))

Merge(d, es) ==
  MergeLoop(d, es, 1, [st |-> "ok", result |-> <<>>,
                       oOff |-> 0, oLen |-> Len(d.Old),
                       nOff |-> 0, nLen |-> Len(d.New), td |-> 0, ti |-> 0])

\* the shift loop moving the edit without handing the Retain's symbols on
\* to the next edit (line 279 left out)
ShiftStepDropping(z, offset) ==
  LET es == z.es
      edit == es[offset + 1]
      n == Len(z.result)
      prev == z.result[n]
      next == es[offset + 2]
  IN IF prev.Kind = EditRetain /\ next.Kind = EditRetain /\ edit.Kind # EditRetain
        /\ (runesHaveSuffix(edit.Data, prev.Data) \/ runesHavePrefix(edit.Data, next.Data))
     THEN [z EXCEPT !.isShifted = TRUE,
                    !.result[n] = Edit(edit.Kind, edit.Data)]
     ELSE [z EXCEPT !.result = Append(z.result, edit)]

\* one iteration of the shift loop (lines 270-293) at index offset
\* (0-based) of es; es is d.Edits, which the loop writes through next
ShiftStep(z, offset) ==
  LET es == z.es
      edit == es[offset + 1]
      n == Len(z.result)
      prev == z.result[n]
      next == es[offset + 2]
  IN IF prev.Kind = EditRetain /\ next.Kind = EditRetain
     THEN IF edit.Kind = EditRetain THEN [z EXCEPT !.st = "assert"]
          ELSE IF runesHaveSuffix(edit.Data, prev.Data)
          THEN [z EXCEPT
                  !.isShifted = TRUE,
                  !.es[offset + 2] = Edit(next.Kind, prev.Data \o next.Data),
                  !.result[n] = Edit(edit.Kind,
                     prev.Data \o SubSeq(edit.Data, 1, Len(edit.Data) - Len(prev.Data)))]
          ELSE IF runesHavePrefix(edit.Data, next.Data)
          THEN [z EXCEPT
                  !.isShifted = TRUE,
                  !.result[n] = Edit(prev.Kind, prev.Data \o next.Data),
                  !.es[offset + 2] = Edit(edit.Kind,
                     SubSeq(edit.Data, Len(next.Data) + 1, Len(edit.Data)) \o next.Data)]
          ELSE [z EXCEPT !.result = Append(z.result, edit)]
     ELSE [z EXCEPT !.result = Append(z.result, edit)]

RECURSIVE ShiftLoop(_, _)
ShiftLoop(z, offset) ==
  IF offset > Len(z.es) - 2 \/ z.st # "ok" THEN z
  ELSE With(ShiftStep(z, offset), LAMBDA z1 : ShiftLoop(z1, offset + 1))

\* the shift closure that reports a shift whether or not one was made
ShiftResultAlways(z) ==
  [st |-> z.st, isShifted |-> TRUE, Edits |-> Append(z.result, z.es[Len(z.es)])]

\* the shift closure (lines 264-294) with its deferred append of the last
\* edit; es[1:len-1] panics when es has one edit
ShiftResult(z) ==
  [st |-> z.st, isShifted |-> z.isShifted, Edits |-> Append(z.result, z.es[Len(z.es)])]

Shift(es) ==
  IF Len(es) < 2
  THEN ShiftResult([st |-> "panic", es |-> es, result |-> <<es[1]>>, isShifted |-> FALSE])
  ELSE With(ShiftLoop([st |-> "ok", es |-> es, result |-> <<es[1]>>,
                        isShifted |-> FALSE], 1),
            ShiftResult)

AllNonEmpty(es) == \A i \in 1..Len(es) : Len(es[i].Data) > 0

\* the merge closure run on the script as it is, no Retain put at its ends
WithSentinelsOmitted(es) == es

\* lines 191-196: the empty Retain edits put at both ends
WithSentinels(es) ==
  (IF es[1].Kind # EditRetain THEN <<Edit(EditRetain, <<>>)>> ELSE <<>>)
  \o es
  \o (IF es[Len(es)].Kind # EditRetain THEN <<Edit(EditRetain, <<>>)>> ELSE <<>>)

\* lines 246-251: the empty edits at both ends are dropped
WithoutSentinels(es) ==
  LET t1 == IF Len(es[1].Data) = 0 THEN Tail(es) ELSE es
  IN IF Len(t1[Len(t1)].Data) = 0 THEN SubSeq(t1, 1, Len(t1) - 1) ELSE t1

\* the body of MergeShiftDiffCleanup; the recursion is the call of line 296
RECURSIVE CleanupBody(_, _)
\* with the deferred check of lines 176-179, which runs when the body
\* returns and also while a panic of the body unwinds: a failed check ends
\* the process before the panic does
MergeShiftDiffCleanup(d, es) ==
  With(CleanupBody(d, es),
       LAMBDA r :
         IF r.st \in {"ok", "panic"} /\ ~EditsAddUp(r.Edits, d.OldStr, d.NewStr)
         THEN [r EXCEPT !.st = "assert"]
         ELSE r)

\* the shift pass without the call of line 296 that runs the cleanup again
CleanupShiftedOnce(d, sh) ==
  [st |-> sh.st, Edits |-> sh.Edits, passes |-> 1]

\* after the shift pass (lines 295-297)
CleanupShifted(d, sh) ==
  IF sh.st # "ok" THEN [st |-> sh.st, Edits |-> sh.Edits, passes |-> 1]
  ELSE IF sh.isShifted
  THEN With(MergeShiftDiffCleanup(d, sh.Edits),
            LAMBDA again : [again EXCEPT !.passes = again.passes + 1])
  ELSE [st |-> "ok", Edits |-> sh.Edits, passes |-> 1]

\* after the sentinels are dropped (lines 253-262), t are the edits
CleanupStripped(d, t) ==
  IF ~AllNonEmpty(t) THEN [st |-> "assert", Edits |-> t, passes |-> 1]
  ELSE CleanupShifted(d, Shift(t))

\* after the merge pass (lines 245-251), m is the state the loop ended in
CleanupMerged(d, m) ==
  IF m.st # "ok" THEN [st |-> m.st, Edits |-> m.result, passes |-> 1]
  ELSE IF Len(m.result) < 3 THEN [st |-> "assert", Edits |-> m.result, passes |-> 1]
  ELSE CleanupStripped(d, WithoutSentinels(m.result))

CleanupBody(d, es) ==
  IF Len(es) < 3 THEN [st |-> "ok", Edits |-> es, passes |-> 1]
  ELSE IF Len(d.OldStr) = 0 \/ Len(d.NewStr) = 0 \/ Len(d.Old) = 0 \/ Len(d.New) = 0
  THEN [st |-> "assert", Edits |-> es, passes |-> 1]
  ELSE CleanupMerged(d, Merge(d, WithSentinels(es)))

\* The same body cut at its two closures, for the specifications that follow
\* the cleanup pass by pass.  A step ends "merged" (the merge closure has set
\* d.Edits, its sentinels included), "again" (the shift closure has shifted
\* and the call of line 296 is next), or as the call ends.

\* the return of the outermost call: the deferred check of lines 176-179
CleanupReturns(d, es) ==
  [st |-> IF EditsAddUp(es, d.OldStr, d.NewStr) THEN "ok" ELSE "assert", Edits |-> es]

\* a panic of a closure unwinds through the same deferred check, with the
\* edits es the closure's own deferred function has left in d.Edits
CleanupPanics(d, es) ==
  [st |-> IF EditsAddUp(es, d.OldStr, d.NewStr) THEN "panic" ELSE "assert", Edits |-> es]

\* lines 182-243 and the check of line 245
CleanupMergeResult(d, m) ==
  IF m.st = "panic" THEN CleanupPanics(d, m.result)
  ELSE IF m.st # "ok" THEN [st |-> m.st, Edits |-> m.result]
  ELSE IF Len(m.result) < 3 THEN [st |-> "assert", Edits |-> m.result]
  ELSE [st |-> "merged", Edits |-> m.result]

CleanupMerge(d) ==
  IF Len(d.Edits) < 3 THEN CleanupReturns(d, d.Edits)
  ELSE IF Len(d.OldStr) = 0 \/ Len(d.NewStr) = 0 \/ Len(d.Old) = 0 \/ Len(d.New) = 0
  THEN [st |-> "assert", Edits |-> d.Edits]
  ELSE With(Merge(d, WithSentinels(d.Edits)), LAMBDA m : CleanupMergeResult(d, m))

\* lines 246-297 up to the call of line 296
CleanupShiftResult(d, sh) ==
  IF sh.st = "panic" THEN CleanupPanics(d, sh.Edits)
  ELSE IF sh.st # "ok" THEN [st |-> sh.st, Edits |-> sh.Edits]
  ELSE IF sh.isShifted THEN [st |-> "again", Edits |-> sh.Edits]
  ELSE CleanupReturns(d, sh.Edits)

CleanupStrippedShift(d, t) ==
  IF ~AllNonEmpty(t) THEN [st |-> "assert", Edits |-> t]
  ELSE With(Shift(t), LAMBDA sh : CleanupShiftResult(d, sh))

CleanupShift(d) ==
  With(WithoutSentinels(d.Edits), LAMBDA t : CleanupStrippedShift(d, t))

\* ---- renderers ----------------------------------------------------------
Indicator(kind) ==
  IF kind = EditRetain THEN <<Space>>
  ELSE IF kind = EditInsert THEN <<Plus>>
  ELSE IF kind = EditDelete THEN <<Minus>>
  ELSE <<>>

RECURSIVE Escaped(_)
Escaped(data) ==
  IF data = <<>> THEN <<>>
  ELSE (IF Head(data) = Quote THEN <<Backslash, Quote>> ELSE <<EncodeRune(Head(data))>>)
       \o Escaped(Tail(data))

\* Differ.String (lines 138-166)
RECURSIVE String(_)
String(es) ==
  IF es = <<>> THEN <<>>
  ELSE (IF Len(Head(es).Data) = 0 THEN <<>>
        ELSE Indicator(Head(es).Kind) \o <<Quote>> \o Escaped(Head(es).Data) \o <<Quote>>)
       \o String(Tail(es))

\* Differ.Diff (lines 127-136)
DiffCleaned(d, c) ==
  IF c.st # "ok" THEN [st |-> c.st, Edits |-> c.Edits, out |-> <<>>]
  ELSE IF ~EditsAddUp(c.Edits, d.OldStr, d.NewStr)
  THEN [st |-> "assert", Edits |-> c.Edits, out |-> <<>>]
  ELSE [st |-> "ok", Edits |-> c.Edits, out |-> String(c.Edits)]

Diff(d) ==
  With(OptimizedDiff(d),
       LAMBDA o :
         IF o.st # "ok" THEN [st |-> o.st, Edits |-> o.Edits, out |-> <<>>]
         ELSE DiffCleaned(d, MergeShiftDiffCleanup(d, o.Edits)))

\* strings.SplitSeq(s, "\n"): the pieces between line feeds
RECURSIVE SplitLines(_, _)
SplitLines(s, cur) ==
  IF s = <<>> THEN <<cur>>
  ELSE IF Head(s) = LineFeed THEN <<cur>> \o SplitLines(Tail(s), <<>>)
  ELSE SplitLines(Tail(s), Append(cur, Head(s)))

\* strings.Join(lines, "\n")
RECURSIVE JoinLines(_)
JoinLines(ls) ==
  IF ls = <<>> THEN <<>>
  ELSE IF Len(ls) = 1 THEN ls[1]
  ELSE ls[1] \o <<LineFeed>> \o JoinLines(Tail(ls))

\* the decimal numeral of n, as a line, and the number a numeral stands for
RECURSIVE Numeral(_)
Numeral(n) == IF n < 10 THEN <<48 + n>> ELSE Append(Numeral(n \div 10), 48 + (n % 10))

RECURSIVE NumberOf(_)
NumberOf(line) ==
  IF line = <<>> THEN 0
  ELSE 10 * NumberOf(SubSeq(line, 1, Len(line) - 1)) + (line[Len(line)] - 48)

IsNumeral(line) ==
  /\ line # <<>>
  /\ \A i \in 1..Len(line) : line[i] \in 48..57
  /\ Len(line) > 1 => line[1] # 48

\* the maps lineToRune and runeToLine after the loops of lines 83-98 have
\* seen some lines, as the table of the distinct lines in the order they
\* were first seen; the line at position i has rune i - 1.  The table of a
\* text that begins with the lines "0", "1", ..., "n - 1" begins with these
\* lines: they are given by their number n, the lines behind them are listed
NoLines == [numbered |-> 0, lines |-> <<>>]

IsNumbered(t, line) == IsNumeral(line) /\ NumberOf(line) < t.numbered

InTable(t, line) ==
  IsNumbered(t, line) \/ \E i \in 1..Len(t.lines) : t.lines[i] = line

\* the table after the lines ls are seen, starting from table t
RECURSIVE LineTable(_, _)
LineTable(ls, t) ==
  IF ls = <<>> THEN t
  ELSE LineTable(Tail(ls),
                 IF InTable(t, Head(ls)) THEN t
                 ELSE [t EXCEPT !.lines = Append(@, Head(ls))])

lineToRune(t, line) ==
  IF IsNumbered(t, line) THEN NumberOf(line)
  ELSE t.numbered + (CHOOSE i \in 1..Len(t.lines) : t.lines[i] = line) - 1

runeToLine(t, ch) ==
  IF ch >= 0 /\ ch < t.numbered THEN Numeral(ch)
  ELSE IF ch - t.numbered + 1 \in 1..Len(t.lines) THEN t.lines[ch - t.numbered + 1]
  ELSE <<>>

\* the symbol sequences and the inner Differ of LineDiff (lines 72-100)
LineSymbols(t, lines) == StringOf([i \in 1..Len(lines) |-> lineToRune(t, lines[i])])

LineDifferOf(oldLines, newLines, t) ==
  [Edits |-> <<>>,
   Old |-> Runes(LineSymbols(t, oldLines)), New |-> Runes(LineSymbols(t, newLines)),
   OldStr |-> LineSymbols(t, oldLines), NewStr |-> LineSymbols(t, newLines),
   table |-> t]

LineDiffer(d) ==
  With(SplitLines(d.OldStr, <<>>), LAMBDA oldLines :
    With(SplitLines(d.NewStr, <<>>), LAMBDA newLines :
      LineDifferOf(oldLines, newLines, LineTable(newLines, LineTable(oldLines, NoLines)))))

RECURSIVE RenderLines(_, _)
RenderLines(es, t) ==
  IF es = <<>> THEN <<>>
  ELSE [i \in 1..Len(Head(es).Data) |->
          Indicator(Head(es).Kind) \o runeToLine(t, Head(es).Data[i])]
       \o RenderLines(Tail(es), t)

\* lines 100-124: the pipeline on the inner Differ in, and the rendering
LineDiffCleaned(in, c) ==
  IF c.st # "ok" THEN [st |-> c.st, Edits |-> c.Edits, out |-> <<>>]
  ELSE [st |-> "ok", Edits |-> c.Edits, out |-> JoinLines(RenderLines(c.Edits, in.table))]

LineDiffInner(in, o) ==
  IF o.st # "ok" THEN [st |-> o.st, Edits |-> o.Edits, out |-> <<>>]
  ELSE LineDiffCleaned(in, MergeShiftDiffCleanup(in, o.Edits))

LineDiffLines(in) == LineDiffInner(in, OptimizedDiff(in))

\* Differ.LineDiff (lines 45-125)
LineDiff(d) ==
  IF d.OldStr = d.NewStr
  THEN [st |-> "ok", Edits |-> d.Edits,
        out |-> IF d.OldStr = <<>> THEN <<>> ELSE <<Space>> \o d.OldStr]
  ELSE IF d.OldStr = <<>> THEN [st |-> "ok", Edits |-> d.Edits, out |-> <<Plus>> \o d.NewStr]
  ELSE IF d.NewStr = <<>> THEN [st |-> "ok", Edits |-> d.Edits, out |-> <<Minus>> \o d.OldStr]
  ELSE LineDiffLines(LineDiffer(d))

\* ---- the stages on the memory of the process --------------------------------
\* The stages above compute with the values of the sequences.  Here they run
\* on the memory the Go program keeps them in.  The heap holds the arrays the
\* process has allocated: arrays of runes (made by []rune(s) and by
\* slices.Concat) and arrays of Edit structs (made by append, make, a
\* composite literal and slices.Insert).  An array is its cells up to its
\* capacity; own notes the Differ on whose behalf it was allocated.  A slice
\* is a header [arr, off, len, cap]: the number of its array in the heap (0:
\* it has none), the offset of its first cell, its length and its capacity.
\* An Edit in memory is [Kind, Data] with Data a header, a Differ in memory
\* is [Edits, Old, New, OldStr, NewStr] with headers for its three slices.
\*
\* A stage runs as a machine m: the arrays runes and edits of the heap, the
\* receiver d of the method, own (the Differ that runs), how the run stands
\* (st) and the string it returns (out).

\* Edit is a uint8 and a slice header (lines 18-21): 32 bytes
EditSize == 32
\* runtime.growslice doubles the capacity of slices shorter than this
GrowThreshold == 256
\* the runtime puts a header of MallocHeaderSize bytes before an object with
\* pointers that is larger than MinSizeForMallocHeader bytes
MallocHeaderSize == 8
MinSizeForMallocHeader == 512

NilSlice == [arr |-> 0, off |-> 0, len |-> 0, cap |-> 0]

\* Edit{EditRetain, nil} (lines 192, 195)
Sentinel == [Kind |-> EditRetain, Data |-> NilSlice]

\* the zero Edit that fills the unused cells of an array
ZeroEdit == [Kind |-> 0, Data |-> NilSlice]

\* the slice expression s[lo:hi]
Reslice(s, lo, hi) ==
  [arr |-> s.arr, off |-> s.off + lo, len |-> hi - lo, cap |-> s.cap - lo]

\* the runes a header of runes stands for
ReadRunes(m, s) == [i \in 1..s.len |-> m.runes[s.arr].cells[s.off + i]]

\* the structs a header of Edits stands for, and the Edits with their runes
RawEdits(m, s) == [i \in 1..s.len |-> m.edits[s.arr].cells[s.off + i]]

ReadEdits(m, s) ==
  [i \in 1..s.len |->
     Edit(m.edits[s.arr].cells[s.off + i].Kind,
          ReadRunes(m, m.edits[s.arr].cells[s.off + i].Data))]

\* a fresh array for the runes rs (none for no runes): the machine after
\* the allocation and the header of the new slice
NewRunes(m, rs) ==
  IF rs = <<>> THEN [m |-> m, s |-> NilSlice]
  ELSE [m |-> [m EXCEPT !.runes = Append(@, [own |-> m.own, cells |-> Backing(rs)])],
        s |-> [arr |-> Len(m.runes) + 1, off |-> 0, len |-> Len(rs),
               cap |-> RuneCap(Len(rs))]]

\* append(a, b...) in place of slices.Concat(a, b): the runes of b are
\* written behind a in a's own array where its capacity allows
ConcatInPlace(m, a, b) ==
  IF b.len = 0 THEN [m |-> m, s |-> a]
  ELSE IF a.len + b.len > a.cap THEN NewRunes(m, ReadRunes(m, a) \o ReadRunes(m, b))
  ELSE [m |-> [m EXCEPT !.runes[a.arr].cells =
                 [j \in DOMAIN @ |->
                    IF j > a.off + a.len /\ j <= a.off + a.len + b.len
                    THEN ReadRunes(m, b)[j - a.off - a.len] ELSE @[j]]],
        s |-> Reslice(a, 0, a.len + b.len)]

\* slices.Concat(a, b) (lines 218, 223, 279-280, 286-287): always a new array
Concat(m, a, b) == NewRunes(m, ReadRunes(m, a) \o ReadRunes(m, b))

\* the capacity append gives a full slice of oldCap Edits that is to hold
\* newLen of them (runtime.growslice; every append of the package adds one
\* Edit to a full slice, so one step of growth suffices), rounded up to what
\* the allocator hands out
GrowCap(oldCap, newLen) ==
  LET newcap == IF newLen > 2 * oldCap THEN newLen
                ELSE IF oldCap < GrowThreshold THEN 2 * oldCap
                ELSE oldCap + (oldCap + 3 * GrowThreshold) \div 4
      bytes == EditSize * newcap
  IN (IF bytes > MinSizeForMallocHeader /\ bytes <= MaxSmallSize - MallocHeaderSize
      THEN RoundUpSize(bytes + MallocHeaderSize) - MallocHeaderSize
      ELSE RoundUpSize(bytes)) \div EditSize

\* a fresh array of capacity cap that begins with the structs cells
AllocEdits(m, cells, cap) ==
  [m |-> [m EXCEPT !.edits =
            Append(@, [own |-> m.own,
                       cells |-> cells \o [i \in 1..(cap - Len(cells)) |-> ZeroEdit]])],
   s |-> [arr |-> Len(m.edits) + 1, off |-> 0, len |-> Len(cells), cap |-> cap]]

\* make([]Edit, 0, n) served from one buffer of the package that every call
\* uses again (own 0: it belongs to no Differ)
MakeResultPooled(m, n) ==
  LET pooled == {k \in 1..Len(m.edits) : m.edits[k].own = 0 /\ Len(m.edits[k].cells) >= n}
  IN IF pooled = {}
     THEN With(AllocEdits([m EXCEPT !.own = 0], <<>>, n),
               LAMBDA r : [m |-> [r.m EXCEPT !.own = m.own], s |-> r.s])
     ELSE With(CHOOSE k \in pooled : TRUE,
               LAMBDA k : [m |-> m,
                           s |-> [arr |-> k, off |-> 0, len |-> 0,
                                  cap |-> Len(m.edits[k].cells)]])

\* result := make([]Edit, 0, len(d.Edits)) (line 200)
MakeResult(m, n) == AllocEdits(m, <<>>, n)

\* append(s, e): in place while the capacity lasts, else into a new array
AppendEdit(m, s, e) ==
  IF s.len < s.cap
  THEN [m |-> [m EXCEPT !.edits[s.arr].cells[s.off + s.len + 1] = e],
        s |-> [s EXCEPT !.len = @ + 1]]
  ELSE AllocEdits(m, Append(RawEdits(m, s), e), GrowCap(s.cap, s.len + 1))

\* d.Edits = append(d.Edits, Edit{kind, data})
Push(m, kind, data) ==
  With(AppendEdit(m, m.d.Edits, [Kind |-> kind, Data |-> data]),
       LAMBDA r : [r.m EXCEPT !.d.Edits = r.s])

\* d.Edits = slices.Insert(d.Edits, 0, Edit{EditRetain, nil}) (line 192):
\* into a new array when d.Edits is full, else the Edits move up one cell
InsertFront(m) ==
  LET s == m.d.Edits
  IN IF s.len + 1 > s.cap
     THEN With(AllocEdits(m, <<Sentinel>> \o RawEdits(m, s), GrowCap(s.cap, s.len + 1)),
               LAMBDA r : [r.m EXCEPT !.d.Edits = r.s])
     ELSE [m EXCEPT !.edits[s.arr].cells =
                      [j \in DOMAIN @ |->
                         IF j = s.off + 1 THEN Sentinel
                         ELSE IF j > s.off + 1 /\ j <= s.off + s.len + 1 THEN @[j - 1]
                         ELSE @[j]],
                    !.d.Edits.len = @ + 1]

\* slices.Reverse(d.Edits[before:]) (line 467), in place
ReverseFrom(m, before) ==
  LET s == m.d.Edits
      lo == s.off + before
      hi == s.off + s.len
  IN IF hi - lo < 2 THEN m
     ELSE [m EXCEPT !.edits[s.arr].cells =
                      [j \in DOMAIN @ |->
                         IF j > lo /\ j <= hi THEN @[lo + hi + 1 - j] ELSE @[j]]]

\* the helpers on headers.  findCommonPrefix returns a[:i] at the first
\* index i where a and b differ (line 585), and nil when an argument is empty
\* or no rune differs in the first min(len(a), len(b)) runes (line 590)
PrefixOf(m, a, b) ==
  IF /\ a.len > 0
     /\ b.len > 0
     /\ \E i \in 1..Min(a.len, b.len) : ReadRunes(m, a)[i] # ReadRunes(m, b)[i]
  THEN Reslice(a, 0, Len(findCommonPrefix(ReadRunes(m, a), ReadRunes(m, b))))
  ELSE NilSlice

\* findCommonSuffix returns a[la-i:] at the first i where a and b differ
\* counted from their ends (line 603), and nil when no rune differs in the
\* last min(la, lb) runes (line 606)
SuffixOf(m, a, b) ==
  IF \E i \in 0..(Min(a.len, b.len) - 1) :
        ReadRunes(m, a)[a.len - i] # ReadRunes(m, b)[b.len - i]
  THEN Reslice(a, a.len - Len(findCommonSuffix(ReadRunes(m, a), ReadRunes(m, b))), a.len)
  ELSE NilSlice

\* findCommonSubstring returns a[i:][:length:length] of the longer of its
\* arguments (lines 610-623), at the first place the run occurs in it, and
\* nil when there is no run of minLength (line 629).  On two empty slices
\* minLength is 0 and the loops run once with length 0: it returns a[0:][:0:0]
SubstringOf(m, a, b) ==
  IF a.len = 0 /\ b.len = 0
  THEN [arr |-> a.arr, off |-> a.off, len |-> 0, cap |-> 0]
  ELSE With(findCommonSubstring(ReadRunes(m, a), ReadRunes(m, b)),
            LAMBDA sub :
              IF sub = <<>> THEN NilSlice
              ELSE With(IF a.len < b.len THEN b ELSE a,
                        LAMBDA longer :
                          [arr |-> longer.arr,
                           off |-> longer.off + runesIndex(ReadRunes(m, longer), sub),
                           len |-> Len(sub), cap |-> Len(sub)]))

\* the deferred checks "only mutates Differ.Edits" of a stage (lines 49-52,
\* 172-175, 304-307): before is the copy of the receiver the stage made as
\* it began.  The slices before.Old and d.Old are compared as the memory
\* holds them when the stage ends
FieldsKept(before, m) ==
  /\ before.d.OldStr = m.d.OldStr
  /\ before.d.NewStr = m.d.NewStr
  /\ ReadRunes(m, before.d.Old) = ReadRunes(m, m.d.Old)
  /\ ReadRunes(m, before.d.New) = ReadRunes(m, m.d.New)

\* with the check "Edits add up to original text" on the Edits in memory
DeferredChecks(before, m) ==
  /\ FieldsKept(before, m)
  /\ EditsAddUp(ReadEdits(m, m.d.Edits), before.d.OldStr, before.d.NewStr)

\* ---- AlgorithmDiff in memory -------------------------------------------
\* The backward walk reads the trace only, never a symbol: run on the
\* positions 1, 2, ... of old and -1, -2, ... of new it gives each edit the
\* positions its Data covers, old[left:right], old[prevX:][:1] or
\* new[prevY:][:1] (lines 555-562)
Positions(n, sign) == [i \in 1..n |-> sign * i]

Located(old, new, e) ==
  IF e.Data[1] > 0 THEN Reslice(old, e.Data[1] - 1, e.Data[Len(e.Data)])
  ELSE Reslice(new, (-e.Data[1]) - 1, -e.Data[Len(e.Data)])

\* the edits of the walk appended to d.Edits one after the other
RECURSIVE PushWalked(_, _, _, _)
PushWalked(m, old, new, walked) ==
  IF walked = <<>> THEN m
  ELSE With(Push(m, Head(walked).Kind, Located(old, new, Head(walked))),
            LAMBDA m1 : PushWalked(m1, old, new, Tail(walked)))

\* AlgorithmDiff on a Differ with the slices old and new and the strings of
\* the receiver (the receiver itself, or a clone of it made by recurse)
MemAlgorithmDiffBody(m, old, new) ==
  IF old.len = 0 /\ new.len = 0 THEN m
  ELSE IF m.d.OldStr = m.d.NewStr /\ m.d.OldStr # <<>> THEN Push(m, EditRetain, old)
  ELSE IF m.d.NewStr = <<>>
  THEN IF m.d.OldStr = <<>> THEN [m EXCEPT !.st = "assert"]
       ELSE Push(m, EditDelete, old)
  ELSE IF m.d.OldStr = <<>> THEN Push(m, EditInsert, new)
  ELSE
  With(ForwardPass(ReadRunes(m, old), ReadRunes(m, new)),
       LAMBDA f :
         IF f.st \in {"assert", "panic"} THEN [m EXCEPT !.st = f.st]
         ELSE With(BackwardWalk(Positions(old.len, 1), Positions(new.len, -1), f.trace,
                                Len(f.trace) - 1, old.len, new.len, <<>>),
                   LAMBDA b :
                     [ReverseFrom(PushWalked(m, old, new, b.edits), m.d.Edits.len)
                        EXCEPT !.st = b.st]))

\* with the deferred checks of lines 424-440
MemAlgorithmDiff(m, old, new) ==
  With(MemAlgorithmDiffBody(m, old, new),
       LAMBDA r :
         LET cond == (StringOf(ReadRunes(r, old)) = m.d.OldStr)
                       = (StringOf(ReadRunes(r, new)) = m.d.NewStr)
         IN IF r.st = "ok" /\ cond
               /\ ~EditsAddUp(ReadEdits(r, r.d.Edits), m.d.OldStr, m.d.NewStr)
            THEN [r EXCEPT !.st = "assert"]
            ELSE r)

\* ---- OptimizedDiff in memory ---------------------------------------------
\* the closure recurse (lines 377-410) on a clone with the slices old, new
RECURSIVE MemRecurse(_, _, _)
MemRecurseSplit(m, old, new, substr) ==
  LET newSubstrStart == runesIndex(ReadRunes(m, new), ReadRunes(m, substr))
      oldSubstrStart == runesIndex(ReadRunes(m, old), ReadRunes(m, substr))
  IN With(MemRecurse(m, Reslice(old, 0, oldSubstrStart), Reslice(new, 0, newSubstrStart)),
          LAMBDA left :
            IF left.st # "ok" THEN left
            ELSE MemRecurse(Push(left, EditRetain, substr),
                            Reslice(old, oldSubstrStart + substr.len, old.len),
                            Reslice(new, newSubstrStart + substr.len, new.len)))

MemRecurse(m, old, new) ==
  With(SubstringOf(m, old, new),
       LAMBDA substr :
         IF substr.len = 0 THEN MemAlgorithmDiff(m, old, new)
         ELSE MemRecurseSplit(m, old, new, substr))

\* lines 346-418 on the remainders old and new
MemMiddle(m, old, new) ==
  IF old.len > 0 /\ new.len = 0 THEN Push(m, EditDelete, old)
  ELSE IF old.len = 0 /\ new.len > 0 THEN Push(m, EditInsert, new)
  ELSE With(runesIndex(ReadRunes(m, old), ReadRunes(m, new)), LAMBDA x :
       With(runesIndex(ReadRunes(m, new), ReadRunes(m, old)), LAMBDA y :
         IF x > 0
         THEN Push(Push(Push(m, EditDelete, Reslice(old, 0, x)),
                        EditRetain, Reslice(old, x, x + new.len)),
                   EditDelete, Reslice(old, x + new.len, old.len))
         ELSE IF y > 0
         THEN Push(Push(Push(m, EditInsert, Reslice(new, 0, y)),
                        EditRetain, Reslice(new, y, y + old.len)),
                   EditInsert, Reslice(new, y + old.len, new.len))
         ELSE MemRecurse(m, old, new)))

\* lines 330-344: the affixes are cut off the locals old and new, the
\* receiver's d.Old and d.New stay; the suffix is appended by a deferred
\* function
MemTrimmed(m, prefix) ==
  LET m1 == IF prefix.len > 0 THEN Push(m, EditRetain, prefix) ELSE m
      old1 == Reslice(m.d.Old, prefix.len, m.d.Old.len)
      new1 == Reslice(m.d.New, prefix.len, m.d.New.len)
  IN With(SuffixOf(m, old1, new1), LAMBDA suffix :
       With(MemMiddle(m1, Reslice(old1, 0, old1.len - suffix.len),
                          Reslice(new1, 0, new1.len - suffix.len)),
            LAMBDA r : IF suffix.len > 0 THEN Push(r, EditRetain, suffix) ELSE r))

MemOptimizedDiffBody(m) ==
  IF m.d.OldStr = m.d.NewStr THEN Push(m, EditRetain, m.d.Old)
  ELSE IF m.d.NewStr = <<>> THEN Push(m, EditDelete, m.d.Old)
  ELSE IF m.d.OldStr = <<>> THEN Push(m, EditInsert, m.d.New)
  ELSE MemTrimmed(m, PrefixOf(m, m.d.Old, m.d.New))

\* Differ.OptimizedDiff (lines 300-419) with its deferred checks
MemOptimizedDiff(m) ==
  With(MemOptimizedDiffBody(m),
       LAMBDA r : IF r.st = "ok" /\ ~DeferredChecks(m, r)
                  THEN [r EXCEPT !.st = "assert"] ELSE r)

\* ---- MergeShiftDiffCleanup in memory ---------------------------------------
\* The merge closure (lines 199-243).  z is the state of its loop: the
\* machine, the local slices result, old, new, toDelete (td) and toInsert
\* (ti), and in the case EditRetain the copy edit of the Edit at hand

\* lines 216-221: the common prefix of the runs goes to the previous Retain
MemMergePrefix(z) ==
  With(PrefixOf(z.m, z.ti, z.td), LAMBDA prefix :
    IF prefix.len = 0 THEN z
    ELSE IF z.result.len = 0 THEN [z EXCEPT !.st = "panic"]
    ELSE With(Concat(z.m, RawEdits(z.m, z.result)[z.result.len].Data, prefix), LAMBDA c :
           [z EXCEPT !.m = [c.m EXCEPT
                              !.edits[z.result.arr].cells[z.result.off + z.result.len].Data
                                 = c.s],
                     !.td = Reslice(z.td, prefix.len, z.td.len),
                     !.ti = Reslice(z.ti, prefix.len, z.ti.len)]))

\* lines 222-226: their common suffix goes to the Retain edit at hand
MemMergeSuffix(z) ==
  With(SuffixOf(z.m, z.ti, z.td), LAMBDA suffix :
    IF suffix.len = 0 THEN z
    ELSE With(Concat(z.m, z.edit.Data, suffix), LAMBDA c :
           [z EXCEPT !.m = c.m,
                     !.edit.Data = c.s,
                     !.td = Reslice(z.td, 0, z.td.len - suffix.len),
                     !.ti = Reslice(z.ti, 0, z.ti.len - suffix.len)]))

\* lines 228-240: the runs are flushed, then the Retain edit; each of the
\* slice expressions old[n:] and new[n:] panics when n is beyond the length
MemMergeFlush(z, hasDelete, hasInsert) ==
  LET a1 == IF hasDelete
            THEN AppendEdit(z.m, z.result, [Kind |-> EditDelete, Data |-> z.td])
            ELSE [m |-> z.m, s |-> z.result]
      old1 == IF hasDelete THEN Reslice(z.old, z.td.len, z.old.len) ELSE z.old
      a2 == IF hasInsert
            THEN AppendEdit(a1.m, a1.s, [Kind |-> EditInsert, Data |-> z.ti])
            ELSE a1
      new1 == IF hasInsert THEN Reslice(z.new, z.ti.len, z.new.len) ELSE z.new
      a3 == AppendEdit(a2.m, a2.s, z.edit)
      adv == z.edit.Data.len
  IN IF old1.len < 0 THEN [z EXCEPT !.st = "panic", !.m = a1.m, !.result = a1.s]
     ELSE IF new1.len < 0 THEN [z EXCEPT !.st = "panic", !.m = a2.m, !.result = a2.s]
     ELSE IF adv > old1.len \/ adv > new1.len
     THEN [z EXCEPT !.st = "panic", !.m = a3.m, !.result = a3.s]
     ELSE [z EXCEPT !.m = a3.m, !.result = a3.s,
                    !.old = Reslice(old1, adv, old1.len),
                    !.new = Reslice(new1, adv, new1.len),
                    !.td = NilSlice, !.ti = NilSlice]

\* one iteration of the loop of line 205 on the Edit edit
MemMergeStep(z, edit) ==
  IF edit.Kind = EditDelete
  THEN IF z.td.len + edit.Data.len > z.old.cap THEN [z EXCEPT !.st = "panic"]
       ELSE [z EXCEPT !.td = Reslice(z.old, 0, z.td.len + edit.Data.len)]
  ELSE IF edit.Kind = EditInsert
  THEN IF z.ti.len + edit.Data.len > z.new.cap THEN [z EXCEPT !.st = "panic"]
       ELSE [z EXCEPT !.ti = Reslice(z.new, 0, z.ti.len + edit.Data.len)]
  ELSE IF edit.Kind = EditRetain
  THEN With([z EXCEPT !.edit = edit], LAMBDA z0 :
         IF z.td.len > 0 /\ z.ti.len > 0
         THEN With(MemMergePrefix(z0), LAMBDA z1 :
                IF z1.st # "ok" THEN z1
                ELSE With(MemMergeSuffix(z1), LAMBDA z2 : MemMergeFlush(z2, TRUE, TRUE)))
         ELSE MemMergeFlush(z0, z.td.len > 0, z.ti.len > 0))
  ELSE z

\* the loop ranges over d.Edits as it is when the loop begins
RECURSIVE MemMergeLoop(_, _, _)
MemMergeLoop(z, es, i) ==
  IF i > es.len \/ z.st # "ok" THEN z
  ELSE With(MemMergeStep(z, RawEdits(z.m, es)[i]), LAMBDA z1 : MemMergeLoop(z1, es, i + 1))

\* the closure with its deferred d.Edits = result
MemMerge(m) ==
  With(MakeResult(m, m.d.Edits.len), LAMBDA r :
    With(MemMergeLoop([m |-> r.m, st |-> "ok", result |-> r.s,
                       old |-> m.d.Old, new |-> m.d.New,
                       td |-> NilSlice, ti |-> NilSlice, edit |-> ZeroEdit],
                      m.d.Edits, 1),
         LAMBDA z : [z.m EXCEPT !.d.Edits = z.result, !.st = z.st]))

\* the return of MergeShiftDiffCleanup, and a panic of one of its closures
\* unwinding: both run the deferred checks of lines 171-180
MemCleanupEnds(before, m, st) ==
  [m EXCEPT !.st = IF DeferredChecks(before, m) THEN st ELSE "assert"]

\* lines 182-245: up to the check behind the merge closure.  The run ends
\* "merged" when the shift closure is next
MemCleanupMerge(m) ==
  IF m.d.Edits.len < 3 THEN MemCleanupEnds(m, m, "ok")
  ELSE IF Len(m.d.OldStr) = 0 \/ Len(m.d.NewStr) = 0 \/ m.d.Old.len = 0 \/ m.d.New.len = 0
  THEN [m EXCEPT !.st = "assert"]
  ELSE
  With(IF RawEdits(m, m.d.Edits)[1].Kind # EditRetain THEN InsertFront(m) ELSE m, LAMBDA m1 :
  With(IF RawEdits(m1, m1.d.Edits)[m1.d.Edits.len].Kind # EditRetain
       THEN Push(m1, EditRetain, NilSlice) ELSE m1, LAMBDA m2 :
  With(MemMerge(m2), LAMBDA m3 :
    IF m3.st = "panic" THEN MemCleanupEnds(m, m3, "panic")
    ELSE IF m3.st # "ok" THEN m3
    ELSE IF m3.d.Edits.len < 3 THEN [m3 EXCEPT !.st = "assert"]
    ELSE [m3 EXCEPT !.st = "merged"])))

\* lines 246-251: the empty edits at both ends are sliced off d.Edits
MemWithoutSentinels(m) ==
  LET s == m.d.Edits
      s1 == IF RawEdits(m, s)[1].Data.len = 0 THEN Reslice(s, 1, s.len) ELSE s
  IN IF RawEdits(m, s1)[s1.len].Data.len = 0 THEN Reslice(s1, 0, s1.len - 1) ELSE s1

\* one iteration of the shift loop (lines 270-293) at the index offset of
\* d.Edits; prev points into result, next into d.Edits
MemShiftStep(z, offset) ==
  LET es == z.m.d.Edits
      edit == RawEdits(z.m, es)[offset + 1]
      prev == RawEdits(z.m, z.result)[z.result.len]
      next == RawEdits(z.m, es)[offset + 2]
      prevCell == z.result.off + z.result.len
      nextCell == es.off + offset + 2
  IN IF prev.Kind = EditRetain /\ next.Kind = EditRetain
     THEN IF edit.Kind = EditRetain THEN [z EXCEPT !.st = "assert"]
          ELSE IF runesHaveSuffix(ReadRunes(z.m, edit.Data), ReadRunes(z.m, prev.Data))
          THEN With(Concat(z.m, prev.Data, next.Data), LAMBDA c1 :
               With(Concat(c1.m, prev.Data,
                           Reslice(edit.Data, 0, edit.Data.len - prev.Data.len)), LAMBDA c2 :
                 [z EXCEPT !.isShifted = TRUE,
                           !.m = [c2.m EXCEPT
                                    !.edits[es.arr].cells[nextCell].Data = c1.s,
                                    !.edits[z.result.arr].cells[prevCell] =
                                       [Kind |-> edit.Kind, Data |-> c2.s]]]))
          ELSE IF runesHavePrefix(ReadRunes(z.m, edit.Data), ReadRunes(z.m, next.Data))
          THEN With(Concat(z.m, prev.Data, next.Data), LAMBDA c1 :
               With(Concat(c1.m, Reslice(edit.Data, next.Data.len, edit.Data.len),
                           next.Data), LAMBDA c2 :
                 [z EXCEPT !.isShifted = TRUE,
                           !.m = [c2.m EXCEPT
                                    !.edits[z.result.arr].cells[prevCell].Data = c1.s,
                                    !.edits[es.arr].cells[nextCell] =
                                       [Kind |-> edit.Kind, Data |-> c2.s]]]))
          ELSE With(AppendEdit(z.m, z.result, edit), LAMBDA a :
                 [z EXCEPT !.m = a.m, !.result = a.s])
     ELSE With(AppendEdit(z.m, z.result, edit), LAMBDA a :
            [z EXCEPT !.m = a.m, !.result = a.s])

RECURSIVE MemShiftLoop(_, _)
MemShiftLoop(z, offset) ==
  IF offset > z.m.d.Edits.len - 2 \/ z.st # "ok" THEN z
  ELSE With(MemShiftStep(z, offset), LAMBDA z1 : MemShiftLoop(z1, offset + 1))

\* the shift closure (lines 264-294): result := []Edit{d.Edits[0]}, the loop,
\* and the deferred append of the last Edit and d.Edits = result
MemShift(m) ==
  With(AllocEdits(m, <<RawEdits(m, m.d.Edits)[1]>>, 1), LAMBDA r :
    With(IF m.d.Edits.len < 2
         THEN [m |-> r.m, st |-> "panic", result |-> r.s, isShifted |-> FALSE]
         ELSE MemShiftLoop([m |-> r.m, st |-> "ok", result |-> r.s, isShifted |-> FALSE], 1),
         LAMBDA z :
           With(AppendEdit(z.m, z.result, RawEdits(z.m, m.d.Edits)[m.d.Edits.len]),
                LAMBDA a : [m |-> [a.m EXCEPT !.d.Edits = a.s, !.st = z.st],
                            isShifted |-> z.isShifted])))

\* lines 246-297 up to the call of line 296; before is the machine as the
\* call of MergeShiftDiffCleanup found it.  The run ends "again" when the
\* call of line 296 is next
MemCleanupShift(before, m) ==
  With([m EXCEPT !.d.Edits = MemWithoutSentinels(m), !.st = "ok"], LAMBDA m1 :
    IF ~AllNonEmpty(ReadEdits(m1, m1.d.Edits)) THEN [m1 EXCEPT !.st = "assert"]
    ELSE With(MemShift(m1), LAMBDA sh :
           IF sh.m.st = "panic" THEN MemCleanupEnds(before, sh.m, "panic")
           ELSE IF sh.m.st # "ok" THEN sh.m
           ELSE IF sh.isShifted THEN [sh.m EXCEPT !.st = "again"]
           ELSE MemCleanupEnds(before, sh.m, "ok")))

\* Differ.MergeShiftDiffCleanup (lines 168-298) as a whole
RECURSIVE MemMergeShiftDiffCleanup(_)
MemMergeShiftDiffCleanup(m) ==
  With(MemCleanupMerge(m), LAMBDA a :
    IF a.st # "merged" THEN a
    ELSE With(MemCleanupShift(m, a), LAMBDA b :
           IF b.st # "again" THEN b
           ELSE With(MemMergeShiftDiffCleanup([b EXCEPT !.st = "ok"]), LAMBDA c :
                  IF c.st \in {"ok", "panic"} THEN MemCleanupEnds(m, c, c.st) ELSE c)))

\* ---- New and LineDiff in memory ----------------------------------------------
\* New(old, new) (lines 29-36): the Differ in memory and the machine after
\* the two conversions
MemNew(m, old, new) ==
  With(NewRunes(m, Runes(old)), LAMBDA a :
    With(NewRunes(a.m, Runes(new)), LAMBDA b :
      [b.m EXCEPT !.d = [Edits |-> NilSlice, Old |-> a.s, New |-> b.s,
                         OldStr |-> old, NewStr |-> new]]))

\* lines 100-124 on the machine of the inner Differ d; the deferred function
\* of line 101 hands d.Edits to the receiver dfr
MemLineDiffInner(m, in) ==
  With(MemOptimizedDiff(MemNew(m, in.OldStr, in.NewStr)), LAMBDA o :
    With(IF o.st # "ok" THEN o ELSE MemMergeShiftDiffCleanup(o), LAMBDA c :
      [c EXCEPT !.d = [m.d EXCEPT !.Edits = c.d.Edits],
                !.out = IF c.st # "ok" THEN <<>>
                        ELSE JoinLines(RenderLines(ReadEdits(c, c.d.Edits), in.table))]))

MemLineDiffBody(m) ==
  IF m.d.OldStr = m.d.NewStr
  THEN [m EXCEPT !.out = IF m.d.OldStr = <<>> THEN <<>> ELSE <<Space>> \o m.d.OldStr]
  ELSE IF m.d.OldStr = <<>> THEN [m EXCEPT !.out = <<Plus>> \o m.d.NewStr]
  ELSE IF m.d.NewStr = <<>> THEN [m EXCEPT !.out = <<Minus>> \o m.d.OldStr]
  ELSE MemLineDiffInner(m, LineDiffer(m.d))

\* Differ.LineDiff (lines 45-125) with its deferred checks
MemLineDiff(m) ==
  With(MemLineDiffBody(m),
       LAMBDA r : IF r.st = "ok" /\ ~FieldsKept(m, r)
                  THEN [r EXCEPT !.st = "assert"] ELSE r)

\* ---- the Differ as a state machine --------------------------------------
Self == [Edits |-> Edits, Old |-> Old, New |-> New, OldStr |-> OldStr, NewStr |-> NewStr]

\* a second Differ of the same process, as New leaves it: its fields, the
\* calls made on it and how the last one ended
PeerOf(old, new) ==
  [Edits |-> <<>>, Old |-> Runes(old), New |-> Runes(new),
   OldStr |-> old, NewStr |-> new, calls |-> <<>>, status |-> "ok"]

\* the process has made no second Differ
NoPeer == PeerOf(<<>>, <<>>)

\* the memory of a process whose Differs are followed by their values only
EmptyHeap == [runes |-> <<>>, edits |-> <<>>, differs |-> <<>>]

\* New(old, new) (lines 29-36), by a client that makes n calls
NewDiffer(old, new, n) ==
  /\ OldStr = old
  /\ NewStr = new
  /\ Old = Runes(old)
  /\ New = Runes(new)
  /\ Edits = <<>>
  /\ calls = <<>>
  /\ limit = n
  /\ peer = NoPeer
  /\ heap = EmptyHeap
  /\ out = <<>>
  /\ status = "ok"

Init == \E old, new \in StringsOver(Units, MaxLen) : NewDiffer(old, new, MaxCalls)

\* a failed invariant.Always ends the process (AssertionFailureCallback is
\* Fatal, which calls os.Exit(1)), and so does a panic nobody recovers: no
\* Differ of the process makes a step after either
Running ==
  /\ status \notin {"assert", "panic"}
  /\ peer.status \notin {"assert", "panic"}

\* the client calls a method while the process runs, its last call has
\* returned and it has calls left
CanCall == Running /\ status = "ok" /\ Len(calls) < limit

\* the receiver when a stage returns with result r.  A stage assigns to no
\* field of its receiver but Edits: the re-sliced old and new are locals and
\* fields of the copies dfr and dClone (lines 315, 334-344, 388-415), and
\* LineDiff computes on a Differ of its own (line 100).  What the stages
\* write to the arrays the fields point to is followed in MemSpec
Returned(name, r, o) ==
  /\ Edits' = r.Edits
  /\ status' = r.st
  /\ calls' = Append(calls, name)
  /\ out' = o
  /\ UNCHANGED <<Old, New, OldStr, NewStr, limit, peer, heap>>

ReturnedString(name, r) == Returned(name, r, r.out)

CallDiff ==
  /\ CanCall
  /\ ReturnedString("Diff", Diff(Self))

CallOptimizedDiff ==
  /\ CanCall
  /\ Returned("OptimizedDiff", OptimizedDiff(Self), <<>>)

CallAlgorithmDiff ==
  /\ CanCall
  /\ Returned("AlgorithmDiff", AlgorithmDiff(Self), <<>>)

CallMergeShiftDiffCleanup ==
  /\ CanCall
  /\ Returned("MergeShiftDiffCleanup", MergeShiftDiffCleanup(Self, Edits), <<>>)

CallLineDiff ==
  /\ CanCall
  /\ ReturnedString("LineDiff", LineDiff(Self))

\* Differ.Reset (lines 38-42)
CallReset ==
  /\ CanCall
  /\ Edits' = <<>>
  /\ Old' = <<>>
  /\ New' = <<>>
  /\ OldStr' = <<>>
  /\ NewStr' = <<>>
  /\ calls' = Append(calls, "Reset")
  /\ out' = <<>>
  /\ UNCHANGED <<status, limit, peer, heap>>

Next ==
  \/ CallDiff
  \/ CallOptimizedDiff
  \/ CallAlgorithmDiff
  \/ CallMergeShiftDiffCleanup
  \/ CallLineDiff
  \/ CallReset

\* any MaxCalls calls on a Differ
Spec == Init /\ [][Next]_vars

\* any MaxCalls calls on a Differ of two strings of up to MaxStageLen letters
MaxStageLen == 3

StageInit ==
  \E old, new \in StringsOver(Letters, MaxStageLen) : NewDiffer(old, new, MaxCalls)

StageSpec == StageInit /\ [][Next]_vars

\* one call on a fresh Differ of two texts of lines
LineInit == \E old, new \in StringsOver(LineUnits, MaxTextLen) : NewDiffer(old, new, 1)

LineSpec == LineInit /\ [][Next]_vars

\* one call on a fresh Differ of longer strings over two letters
LongInit ==
  \E old \in StringsOver(Letters, MaxLongOld), new \in StringsOver(Letters, MaxLongNew) :
     NewDiffer(old, new, 1)

LongSpec == LongInit /\ [][Next]_vars

\* one call on a Differ of two short strings that may hold the replacement
\* rune itself next to a byte that only decodes to it
DecodeUnits == {97, BadByte, RuneError}
MaxDecodeLen == 2

DecodeInit ==
  \E old, new \in StringsOver(DecodeUnits, MaxDecodeLen) : NewDiffer(old, new, 1)

DecodeSpec == DecodeInit /\ [][Next]_vars

\* ---- the Differs of a process in its memory ---------------------------------
\* the Differs the process has made, in the order it made them
Differs == {1, 2}

\* the heap after New(old, new) has made one more Differ
HeapNew(h, old, new) ==
  With(MemNew([runes |-> h.runes, edits |-> h.edits, own |-> Len(h.differs) + 1,
               d |-> <<>>, st |-> "ok", out |-> <<>>], old, new),
       LAMBDA m : [runes |-> m.runes, edits |-> m.edits,
                   differs |-> Append(h.differs, m.d)])

\* the machine that runs a method on the Differ i
Machine(i) ==
  [runes |-> heap.runes, edits |-> heap.edits, own |-> i,
   d |-> heap.differs[i], st |-> "ok", out |-> <<>>]

\* the heap when the machine m of Differ i has made its step
Stored(i, m) ==
  [runes |-> m.runes, edits |-> m.edits, differs |-> [heap.differs EXCEPT ![i] = m.d]]

\* the fields of the Differ i as the heap h holds them
FieldsIn(h, i) ==
  [Edits |-> ReadEdits(h, h.differs[i].Edits),
   Old |-> ReadRunes(h, h.differs[i].Old),
   New |-> ReadRunes(h, h.differs[i].New),
   OldStr |-> h.differs[i].OldStr,
   NewStr |-> h.differs[i].NewStr]

CallsOf(i) == IF i = 1 THEN calls ELSE peer.calls
StatusOf(i) == IF i = 1 THEN status ELSE peer.status

\* the process as New has left it with the Differs of the heap h
HeapInit(h, n) ==
  /\ heap = h
  /\ Edits = FieldsIn(heap, 1).Edits
  /\ Old = FieldsIn(heap, 1).Old
  /\ New = FieldsIn(heap, 1).New
  /\ OldStr = FieldsIn(heap, 1).OldStr
  /\ NewStr = FieldsIn(heap, 1).NewStr
  /\ calls = <<>>
  /\ limit = n
  /\ out = <<>>
  /\ status = "ok"
  /\ peer = IF Len(heap.differs) < 2 THEN NoPeer
            ELSE [Edits |-> FieldsIn(heap, 2).Edits,
                  Old |-> FieldsIn(heap, 2).Old, New |-> FieldsIn(heap, 2).New,
                  OldStr |-> FieldsIn(heap, 2).OldStr,
                  NewStr |-> FieldsIn(heap, 2).NewStr,
                  calls |-> <<>>, status |-> "ok"]

\* the Differ i has made a step that left the machine m; cs are the calls
\* made on it so far.  The fields of both Differs are what the memory holds
\* for them after the step
Stepped(i, cs, m) ==
  /\ heap' = Stored(i, m)
  /\ Edits' = FieldsIn(heap', 1).Edits
  /\ Old' = FieldsIn(heap', 1).Old
  /\ New' = FieldsIn(heap', 1).New
  /\ OldStr' = FieldsIn(heap', 1).OldStr
  /\ NewStr' = FieldsIn(heap', 1).NewStr
  /\ calls' = IF i = 1 THEN cs ELSE calls
  /\ status' = IF i = 1 THEN m.st ELSE status
  /\ out' = IF i = 1 THEN m.out ELSE out
  /\ peer' = IF Len(heap'.differs) < 2 THEN peer
             ELSE [Edits |-> FieldsIn(heap', 2).Edits,
                   Old |-> FieldsIn(heap', 2).Old, New |-> FieldsIn(heap', 2).New,
                   OldStr |-> FieldsIn(heap', 2).OldStr,
                   NewStr |-> FieldsIn(heap', 2).NewStr,
                   calls |-> IF i = 2 THEN cs ELSE peer.calls,
                   status |-> IF i = 2 THEN m.st ELSE peer.status]
  /\ UNCHANGED limit

\* a method is called on the Differ i
CanCallOn(i) ==
  /\ Running
  /\ i <= Len(heap.differs)
  /\ StatusOf(i) = "ok"
  /\ Len(CallsOf(i)) < limit

RunOptimizedDiff(i) ==
  /\ CanCallOn(i)
  /\ \E m \in {MemOptimizedDiff(Machine(i))} :
        Stepped(i, Append(CallsOf(i), "OptimizedDiff"), m)

RunAlgorithmDiff(i) ==
  /\ CanCallOn(i)
  /\ \E m \in {MemAlgorithmDiff(Machine(i), heap.differs[i].Old, heap.differs[i].New)} :
        Stepped(i, Append(CallsOf(i), "AlgorithmDiff"), m)

RunMergeShiftDiffCleanup(i) ==
  /\ CanCallOn(i)
  /\ \E m \in {MemMergeShiftDiffCleanup(Machine(i))} :
        Stepped(i, Append(CallsOf(i), "MergeShiftDiffCleanup"), m)

RunLineDiff(i) ==
  /\ CanCallOn(i)
  /\ \E m \in {MemLineDiff(Machine(i))} :
        Stepped(i, Append(CallsOf(i), "LineDiff"), m)

\* MergeShiftDiffCleanup closure by closure: the call up to the end of the
\* merge closure, the shift closure that follows, and the call of line 296
RunCleanupMerge(i) ==
  /\ CanCallOn(i)
  /\ \E m \in {MemCleanupMerge(Machine(i))} :
        Stepped(i, Append(CallsOf(i), "MergeShiftDiffCleanup"), m)

RunCleanupShift(i) ==
  /\ Running
  /\ i <= Len(heap.differs)
  /\ StatusOf(i) = "merged"
  /\ \E m \in {MemCleanupShift(Machine(i), Machine(i))} : Stepped(i, CallsOf(i), m)

RunCleanupAgain(i) ==
  /\ Running
  /\ i <= Len(heap.differs)
  /\ StatusOf(i) = "again"
  /\ \E m \in {MemCleanupMerge(Machine(i))} : Stepped(i, CallsOf(i), m)

\* any MaxCalls calls of the stages on one Differ of two texts of up to
\* MaxMemLen units, each a line feed or the letter a
MaxMemLen == 4

MemInit ==
  \E old, new \in StringsOver(LineUnits, MaxMemLen) :
     HeapInit(HeapNew(EmptyHeap, old, new), MaxCalls)

MemOptimizedDiffCall == RunOptimizedDiff(1)
MemAlgorithmDiffCall == RunAlgorithmDiff(1)
MemMergeShiftDiffCleanupCall == RunMergeShiftDiffCleanup(1)
MemLineDiffCall == RunLineDiff(1)

MemNext ==
  \/ MemOptimizedDiffCall
  \/ MemAlgorithmDiffCall
  \/ MemMergeShiftDiffCleanupCall
  \/ MemLineDiffCall

MemSpec == MemInit /\ [][MemNext]_vars

\* ---- Diff and LineDiff on texts of lines over two letters ---------------------
MaxTextOld == 3
MaxTextNew == 4

TextInit ==
  \E old \in StringsOver(TextUnits, MaxTextOld), new \in StringsOver(TextUnits, MaxTextNew) :
     NewDiffer(old, new, 1)

TextNext ==
  \/ CallDiff
  \/ CallLineDiff

TextSpec == TextInit /\ [][TextNext]_vars

\* ---- LineDiff on a text of many lines -------------------------------------
\* a text given by what strings.SplitSeq(text, "\n") yields for it: first the
\* n numbered lines, then the lines ls
ManyLines(n, ls) == [numbered |-> n, lines |-> ls]

\* the numbers of numbered lines: none, and as many as take the counter ch
\* of line 79 up to the first code point that is no scalar value
Leads == {0, SurrogateMin - 2, SurrogateMin - 1, SurrogateMin}
\* the lines behind the numbered ones, and how many there are at most
TailLines == {<<>>, <<97>>, Numeral(0)}
MaxTail == 2

\* lines 83-98 on the texts old and new: every numbered line of old is new
\* to lineToRune when the first loop reads it and takes the next value of
\* ch, so the table behind them is the numbered lines in their order; the
\* loops go on from it over the other lines of old, and over the lines of new
ManyTable(old, new) ==
  LineTable(new.lines, LineTable(old.lines, [numbered |-> old.numbered, lines |-> <<>>]))

\* the empty text: strings.SplitSeq yields one empty line for it
EmptyText == ManyLines(0, << <<>> >>)

\* LineDiff is called on a Differ of a text that may have many lines and one
\* of few lines (a text has at least one line)
SymbolInit ==
  \E n \in Leads, ols, nls \in StringsOver(TailLines, MaxTail) :
     /\ n + Len(ols) >= 1
     /\ Len(nls) >= 1
     /\ OldStr = ManyLines(n, ols)
     /\ NewStr = ManyLines(0, nls)
     /\ Old = <<>>
     /\ New = <<>>
     /\ Edits = <<>>
     /\ calls = <<>>
     /\ limit = 1
     /\ peer = NoPeer
     /\ heap = EmptyHeap
     /\ out = <<>>
     /\ status = "ok"

\* lines 55-100 of LineDiff: behind the early returns the loops write the symbols of the lines, and
\* New(old.String(), new.String()) makes the inner Differ d; peer is d over
\* the lines behind the numbered ones
LineDiffMaps ==
  /\ status = "ok"
  /\ OldStr # NewStr
  /\ OldStr # EmptyText
  /\ NewStr # EmptyText
  /\ peer' = With(ManyTable(OldStr, NewStr),
                  LAMBDA t : PeerOf(LineSymbols(t, OldStr.lines),
                                    LineSymbols(t, NewStr.lines)))
  /\ status' = "mapped"
  /\ UNCHANGED <<Edits, Old, New, OldStr, NewStr, calls, limit, out, heap>>

SymbolNext == LineDiffMaps

SymbolSpec == SymbolInit /\ [][SymbolNext]_vars

\* ---- LineDiff as a whole on texts of many lines -----------------------------
\* the numbers of numbered lines both texts begin with: a few, and as many
\* as take the counter ch of line 79 to the first code point that is no
\* scalar value
MaxSmallLead == 8
ManyLeads == 0..MaxSmallLead \cup {SurrogateMin}

\* the lines of a text: what strings.SplitSeq(text, "\n") yields
TextLines(t) ==
  [i \in 1..(t.numbered + Len(t.lines)) |->
     IF i <= t.numbered THEN Numeral(i - 1) ELSE t.lines[i - t.numbered]]

\* the string lines 83-98 write for a text: a numbered line that is in the
\* table has its number for a symbol
ManySymbols(t, text) ==
  StringOf([i \in 1..(text.numbered + Len(text.lines)) |->
              IF i <= text.numbered /\ i <= t.numbered THEN i - 1
              ELSE lineToRune(t, TextLines(text)[i])])

\* the inner Differ of line 100
ManyDiffer(old, new, t) ==
  With(ManySymbols(t, old), LAMBDA oldStr :
    With(ManySymbols(t, new), LAMBDA newStr :
      [Edits |-> <<>>, Old |-> Runes(oldStr), New |-> Runes(newStr),
       OldStr |-> oldStr, NewStr |-> newStr, table |-> t]))

\* fmt.Sprintf("%c%s", p, text) (lines 59, 63, 66) as the lines of the result
PrefixFirst(p, ls) == [i \in 1..Len(ls) |-> IF i = 1 THEN <<p>> \o ls[i] ELSE ls[i]]

\* strings.Join(result, "\n") (line 124) as the lines of the string: those
\* of result (no line holds a line feed), and one empty line when result is
\* empty
JoinedLines(result) == IF result = <<>> THEN << <<>> >> ELSE result

\* lines 100-124 on the inner Differ in
LineDiffManyCleaned(in, c) ==
  IF c.st # "ok" THEN [st |-> c.st, Edits |-> c.Edits, out |-> <<>>]
  ELSE [st |-> "ok", Edits |-> c.Edits,
        out |-> JoinedLines(RenderLines(c.Edits, in.table))]

LineDiffManyInner(in, o) ==
  IF o.st # "ok" THEN [st |-> o.st, Edits |-> o.Edits, out |-> <<>>]
  ELSE With(MergeShiftDiffCleanup(in, o.Edits), LAMBDA c : LineDiffManyCleaned(in, c))

\* Differ.LineDiff (lines 45-125) on two texts that begin with the same
\* numbered lines; es are the receiver's Edits, the result holds the lines
\* of the string returned
LineDiffMany(es, old, new) ==
  IF old = new
  THEN [st |-> "ok", Edits |-> es,
        out |-> IF old = EmptyText THEN << <<>> >> ELSE PrefixFirst(Space, TextLines(old))]
  ELSE IF old = EmptyText
  THEN [st |-> "ok", Edits |-> es, out |-> PrefixFirst(Plus, TextLines(new))]
  ELSE IF new = EmptyText
  THEN [st |-> "ok", Edits |-> es, out |-> PrefixFirst(Minus, TextLines(old))]
  ELSE With(ManyDiffer(old, new, ManyTable(old, new)),
            LAMBDA in : LineDiffManyInner(in, OptimizedDiff(in)))

\* two texts of the same numbered lines, followed in each by one more line,
\* not the same in both
ManyInit ==
  \E n \in ManyLeads, ol, nl \in TailLines :
     /\ ol # nl
     /\ OldStr = ManyLines(n, <<ol>>)
     /\ NewStr = ManyLines(n, <<nl>>)
     /\ Old = <<>>
     /\ New = <<>>
     /\ Edits = <<>>
     /\ calls = <<>>
     /\ limit = 1
     /\ peer = NoPeer
     /\ heap = EmptyHeap
     /\ out = <<>>
     /\ status = "ok"

\* LineDiff is called; out holds the lines of the string it returns
CallLineDiffMany ==
  /\ CanCall
  /\ \E r \in {LineDiffMany(Edits, OldStr, NewStr)} :
        /\ Edits' = r.Edits
        /\ status' = r.st
        /\ out' = r.out
  /\ calls' = Append(calls, "LineDiff")
  /\ UNCHANGED <<Old, New, OldStr, NewStr, limit, peer, heap>>

ManyNext == CallLineDiffMany

ManySpec == ManyInit /\ [][ManyNext]_vars

\* the helper functions applied to two rune sequences a = Old and b = New
HelperInit ==
  \E a, b \in StringsOver(SubRunes, MaxSubLen) :
     /\ Old = a
     /\ New = b
     /\ OldStr = StringOf(a)
     /\ NewStr = StringOf(b)
     /\ Edits = <<>>
     /\ calls = <<>>
     /\ limit = 1
     /\ peer = NoPeer
     /\ heap = EmptyHeap
     /\ out = <<>>
     /\ status = "ok"

CallFindCommonSubstring ==
  /\ CanCall
  /\ out' = findCommonSubstring(Old, New)
  /\ calls' = Append(calls, "findCommonSubstring")
  /\ UNCHANGED <<Edits, Old, New, OldStr, NewStr, limit, status, peer, heap>>

CallFindCommonPrefix ==
  /\ CanCall
  /\ out' = findCommonPrefix(Old, New)
  /\ calls' = Append(calls, "findCommonPrefix")
  /\ UNCHANGED <<Edits, Old, New, OldStr, NewStr, limit, status, peer, heap>>

CallFindCommonSuffix ==
  /\ CanCall
  /\ out' = findCommonSuffix(Old, New)
  /\ calls' = Append(calls, "findCommonSuffix")
  /\ UNCHANGED <<Edits, Old, New, OldStr, NewStr, limit, status, peer, heap>>

\* the cleanup followed closure by closure: the merge closure of a call of
\* MergeShiftDiffCleanup
CleanupMergeStep ==
  /\ CanCall
  /\ Edits' = CleanupMerge(Self).Edits
  /\ status' = CleanupMerge(Self).st
  /\ calls' = Append(calls, "MergeShiftDiffCleanup")
  /\ out' = <<>>
  /\ UNCHANGED <<Old, New, OldStr, NewStr, limit, peer, heap>>

\* the merge closure of the call of itself that ends the function after a
\* shift (lines 295-297)
CleanupMergeAgain ==
  /\ status = "again"
  /\ Edits' = CleanupMerge(Self).Edits
  /\ status' = CleanupMerge(Self).st
  /\ UNCHANGED <<Old, New, OldStr, NewStr, calls, limit, out, peer, heap>>

\* the shift closure that follows it
CleanupShiftStep ==
  /\ status = "merged"
  /\ Edits' = CleanupShift(Self).Edits
  /\ status' = CleanupShift(Self).st
  /\ UNCHANGED <<Old, New, OldStr, NewStr, calls, limit, out, peer, heap>>

\* the stages Diff runs one after the other (lines 129-130)
PipelineStages == 2

PassInit ==
  \E old \in StringsOver(Letters, MaxLongOld), new \in StringsOver(Letters, MaxLongNew) :
     NewDiffer(old, new, PipelineStages)

PassNext ==
  \/ CallOptimizedDiff
  \/ CleanupMergeStep
  \/ CleanupShiftStep
  \/ CleanupMergeAgain

\* a call that has begun runs on: the closures of one call follow each other
\* with nothing in between
PassSpec ==
  /\ PassInit
  /\ [][PassNext]_vars
  /\ WF_vars(CleanupShiftStep)
  /\ WF_vars(CleanupMergeAgain)

HelperNext ==
  \/ CallFindCommonSubstring
  \/ CallFindCommonPrefix
  \/ CallFindCommonSuffix

HelperSpec == HelperInit /\ [][HelperNext]_vars

\* ---- what the scripts are measured against ------------------------------
\* the Data of the edits of the kinds in kinds, concatenated in order
RECURSIVE ConcatData(_, _)
ConcatData(es, kinds) ==
  IF es = <<>> THEN <<>>
  ELSE (IF Head(es).Kind \in kinds THEN Head(es).Data ELSE <<>>)
       \o ConcatData(Tail(es), kinds)

OldSide == {EditRetain, EditDelete}
NewSide == {EditRetain, EditInsert}

\* the number of symbols the Insert and Delete edits carry
RECURSIVE ChangedSymbols(_)
ChangedSymbols(es) ==
  IF es = <<>> THEN 0
  ELSE (IF Head(es).Kind \in {EditInsert, EditDelete} THEN Len(Head(es).Data) ELSE 0)
       + ChangedSymbols(Tail(es))

\* the length of a longest common subsequence, by its recurrence
RECURSIVE LCS(_, _)
LCS(a, b) ==
  IF a = <<>> \/ b = <<>> THEN 0
  ELSE IF Head(a) = Head(b) THEN 1 + LCS(Tail(a), Tail(b))
  ELSE LET l == LCS(Tail(a), b)
           r == LCS(a, Tail(b))
       IN IF l > r THEN l ELSE r

EditDistance(a, b) == Len(a) + Len(b) - 2 * LCS(a, b)

HasKind(es, kind) == \E i \in 1..Len(es) : es[i].Kind = kind

AdjacentSameKind(es) == \E i \in 1..(Len(es) - 1) : es[i].Kind = es[i + 1].Kind

\* the one call name was made on the fresh Differ and returned
After(name) == calls = <<name>> /\ status = "ok"

\* the Differ as New left it, before the call
Fresh == [Edits |-> <<>>, Old |-> Old, New |-> New, OldStr |-> OldStr, NewStr |-> NewStr]

\* the non-empty contiguous runs of a, and the length of the longest run
\* that a and b share (0 when they share none)
RunsOf(a) == {SubSeq(a, i, j) : i \in 1..Len(a), j \in 1..Len(a)} \ {<<>>}
LongestCommonRun(a, b) ==
  LET lens == {Len(r) : r \in RunsOf(a) \cap RunsOf(b)}
  IN IF lens = {} THEN 0 ELSE CHOOSE n \in lens : \A m \in lens : m <= n

HalfRoundedUp(n) == (n + 1) \div 2
Longer(a, b) == IF Len(a) > Len(b) THEN Len(a) ELSE Len(b)
Shorter(a, b) == IF Len(a) < Len(b) THEN Len(a) ELSE Len(b)

\* the lines of a rendered line diff with a prefix in prefixes, stripped of it
RECURSIVE Stripped(_, _)
Stripped(ls, prefixes) ==
  IF ls = <<>> THEN <<>>
  ELSE (IF Head(ls) # <<>> /\ Head(ls)[1] \in prefixes THEN <<Tail(Head(ls))>> ELSE <<>>)
       \o Stripped(Tail(ls), prefixes)

OutLines == SplitLines(out, <<>>)
OldLines == SplitLines(OldStr, <<>>)
NewLines == SplitLines(NewStr, <<>>)
SeqRange(q) == {q[i] : i \in 1..Len(q)}

\* ---- the claims ----------------------------------------------------------

\* C1: after Diff() on a fresh Differ, the Data of the Retain and Delete
\* edits concatenated in order is Old, and the Data of the Retain and Insert
\* edits concatenated in order is New.
C1_DiffRoundTrip ==
  After("Diff") =>
    /\ ConcatData(Edits, OldSide) = Old
    /\ ConcatData(Edits, NewSide) = New

\* a Diff that went through the substring split and left all three kinds
C1_Witness ==
  /\ After("Diff")
  /\ Len(findCommonSubstring(Old, New)) > 0
  /\ Len(Edits) >= 4
  /\ HasKind(Edits, EditRetain) /\ HasKind(Edits, EditDelete) /\ HasKind(Edits, EditInsert)

\* C2: the script Diff() leaves is minimal: its Insert and Delete edits carry
\* |old| + |new| - 2*LCS(old, new) symbols in total, whichever path
\* OptimizedDiff takes.
C2_DiffMinimal ==
  After("Diff") => ChangedSymbols(Edits) = EditDistance(Old, New)

\* C3: AlgorithmDiff() on a fresh Differ leaves a script whose Insert and
\* Delete edits carry |old| + |new| - 2*LCS(old, new) symbols, and when its
\* search loop runs, the loop stops at the depth that is this edit distance.
SearchLoopRuns == OldStr # NewStr /\ OldStr # <<>> /\ NewStr # <<>>

C3_AlgorithmDiffMinimal ==
  After("AlgorithmDiff") =>
    /\ ChangedSymbols(Edits) = EditDistance(Old, New)
    /\ SearchLoopRuns =>
         /\ ForwardPass(Old, New).st = "done"
         /\ ForwardPass(Old, New).depth = EditDistance(Old, New)

\* a search that went three depths deep past common symbols
C3_Witness ==
  /\ After("AlgorithmDiff")
  /\ SearchLoopRuns
  /\ ForwardPass(Old, New).depth >= 3
  /\ LCS(Old, New) >= 2
  /\ ChangedSymbols(Edits) = ForwardPass(Old, New).depth

\* C4: after AlgorithmDiff() alone on a fresh Differ, the Retain and Delete
\* data concatenated in order is Old and the Retain and Insert data
\* concatenated in order is New: the backward walk and the reversal leave
\* the edits in forward order.
C4_AlgorithmDiffRoundTrip ==
  After("AlgorithmDiff") =>
    /\ ConcatData(Edits, OldSide) = Old
    /\ ConcatData(Edits, NewSide) = New

\* a solved script, walked back and reversed, of all three kinds
C4_Witness ==
  /\ After("AlgorithmDiff")
  /\ SearchLoopRuns
  /\ Len(Edits) >= 4
  /\ Edits[1].Kind = EditDelete
  /\ Edits[Len(Edits)].Kind = EditInsert
  /\ HasKind(Edits, EditRetain)

\* C5: no Edit in Edits after Diff() has empty Data, also when the raw
\* script has fewer than 3 edits and the cleanup returns at once.
C5_NoEmptyData ==
  After("Diff") => AllNonEmpty(Edits)

\* C6: no two adjacent edits in Edits after Diff() have the same Kind.
C6_KindsAlternate ==
  After("Diff") => ~AdjacentSameKind(Edits)

\* a Diff whose raw script, as OptimizedDiff left it, had two adjacent edits
\* of one kind
C6_Witness ==
  /\ After("Diff")
  /\ AdjacentSameKind(OptimizedDiff(Fresh).Edits)
  /\ Len(Edits) >= 3

\* C7: Diff() on New(s, s) leaves no edits at all when s is empty, and
\* exactly one Retain edit whose Data is all of s otherwise.
C7_DiffOfEqual ==
  (After("Diff") /\ OldStr = NewStr) =>
    IF OldStr = <<>> THEN Edits = <<>> ELSE Edits = <<Edit(EditRetain, Old)>>

\* C8: every line of a non-empty LineDiff() output begins with one of ' ',
\* '+' and '-', followed by one line of old or new, also when old equals new
\* or one side is empty and the text has several lines.
C8_EveryLinePrefixed ==
  (After("LineDiff") /\ out # <<>>) =>
    \A i \in 1..Len(OutLines) :
      /\ OutLines[i] # <<>>
      /\ OutLines[i][1] \in {Space, Plus, Minus}
      /\ Tail(OutLines[i]) \in SeqRange(OldLines) \cup SeqRange(NewLines)

\* C9: for different, non-empty texts, the lines of LineDiff()'s output
\* prefixed ' ' or '-' are, stripped and in order, the lines of old, and the
\* lines prefixed ' ' or '+' are the lines of new.
LinesWith(ls, prefixes) ==
  With(SelectSeq(ls, LAMBDA l : l # <<>> /\ l[1] \in prefixes),
       LAMBDA marked : [i \in 1..Len(marked) |-> Tail(marked[i])])

C9_LinesRoundTrip ==
  (After("LineDiff") /\ OldStr # NewStr /\ OldStr # EmptyText /\ NewStr # EmptyText) =>
    /\ LinesWith(out, {Space, Minus}) = TextLines(OldStr)
    /\ LinesWith(out, {Space, Plus}) = TextLines(NewStr)

\* C10, as claimed: findCommonSubstring(a, b) returns the longest run that
\* occurs in both when that is at least half the length of the shorter of
\* the two (rounded up), and empty only when there is no such run.
C10_HalfOfShorter ==
  calls = <<"findCommonSubstring">> =>
    IF /\ LongestCommonRun(Old, New) > 0
       /\ LongestCommonRun(Old, New) >= HalfRoundedUp(Shorter(Old, New))
    THEN out \in RunsOf(Old) \cap RunsOf(New) /\ Len(out) = LongestCommonRun(Old, New)
    ELSE out = <<>>

\* C10, amended: findCommonSubstring(a, b) returns the longest run that
\* occurs in both when that is at least half the length of the longer of the
\* two (rounded up), and empty otherwise.
C10_HalfOfLonger ==
  calls = <<"findCommonSubstring">> =>
    IF /\ LongestCommonRun(Old, New) > 0
       /\ LongestCommonRun(Old, New) >= HalfRoundedUp(Longer(Old, New))
    THEN out \in RunsOf(Old) \cap RunsOf(New) /\ Len(out) = LongestCommonRun(Old, New)
    ELSE out = <<>>

\* a run found in sequences of different lengths, shorter than both
C10_Witness ==
  /\ calls = <<"findCommonSubstring">>
  /\ Len(Old) # Len(New)
  /\ out # <<>>
  /\ Len(out) < Shorter(Old, New)

\* the longest sequence that a and b both start with, and both end with
LongestCommonPrefix(a, b) ==
  LET ns == {n \in 0..Shorter(a, b) : SubSeq(a, 1, n) = SubSeq(b, 1, n)}
  IN SubSeq(a, 1, CHOOSE n \in ns : \A m \in ns : m <= n)
LongestCommonSuffix(a, b) ==
  LET ns == {n \in 0..Shorter(a, b) :
               SubSeq(a, Len(a) - n + 1, Len(a)) = SubSeq(b, Len(b) - n + 1, Len(b))}
  IN SubSeq(a, Len(a) - (CHOOSE n \in ns : \A m \in ns : m <= n) + 1, Len(a))

\* C11: findCommonPrefix(a, b) returns the longest common prefix of a and b
\* and findCommonSuffix(a, b) the longest common suffix, so that what is
\* left after cutting them off neither starts nor ends with the same symbol.
C11_LongestAffix ==
  /\ calls = <<"findCommonPrefix">> =>
       /\ out = LongestCommonPrefix(Old, New)
       /\ (Len(out) < Shorter(Old, New) => Old[Len(out) + 1] # New[Len(out) + 1])
  /\ calls = <<"findCommonSuffix">> =>
       /\ out = LongestCommonSuffix(Old, New)
       /\ (Len(out) < Shorter(Old, New) =>
             Old[Len(Old) - Len(out)] # New[Len(New) - Len(out)])

\* C12: findCommonPrefix(a, b) equals findCommonPrefix(b, a) and
\* findCommonSuffix(a, b) equals findCommonSuffix(b, a); a non-empty result
\* is a prefix (a suffix) of both a and b.
C12_AffixSymmetric ==
  /\ calls = <<"findCommonPrefix">> =>
       /\ out = findCommonPrefix(New, Old)
       /\ (out # <<>> => runesHavePrefix(Old, out) /\ runesHavePrefix(New, out))
  /\ calls = <<"findCommonSuffix">> =>
       /\ out = findCommonSuffix(New, Old)
       /\ (out # <<>> => runesHaveSuffix(Old, out) /\ runesHaveSuffix(New, out))

\* a non-empty prefix found in two sequences of different lengths
C12_Witness ==
  /\ calls = <<"findCommonPrefix">>
  /\ Len(out) >= 2
  /\ Len(Old) # Len(New)

\* C13: each of OptimizedDiff, AlgorithmDiff, MergeShiftDiffCleanup and
\* LineDiff leaves Old, New, OldStr and NewStr as they were before the call:
\* the fields are read from the memory of the process before and after.
FrameStages == {"OptimizedDiff", "AlgorithmDiff", "MergeShiftDiffCleanup", "LineDiff"}

C13_StagesKeepTexts ==
  [][(calls' # calls /\ calls'[Len(calls')] \in FrameStages) =>
       (Old' = Old /\ New' = New /\ OldStr' = OldStr /\ NewStr' = NewStr)]_vars

\* a cleanup has returned whose shift closure gave an Edit Data that
\* slices.Concat made, while the Data of another Edit still is a slice of
\* the array of Old
C13_Witness ==
  /\ calls = <<"OptimizedDiff", "MergeShiftDiffCleanup">>
  /\ status = "ok"
  /\ heap.differs[1].Old.arr # 0
  /\ \E j, k \in 1..heap.differs[1].Edits.len :
        /\ RawEdits(heap, heap.differs[1].Edits)[j].Data.arr = heap.differs[1].Old.arr
        /\ RawEdits(heap, heap.differs[1].Edits)[k].Data.arr
              \notin {0, heap.differs[1].Old.arr, heap.differs[1].New.arr}

\* C14: for every raw script of OptimizedDiff, MergeShiftDiffCleanup
\* terminates: a cleanup that is under way, its merge closure done or a
\* re-run pending after a shift, comes to its return.
CleaningUp == status \in {"merged", "again"}

C14_CleanupTerminates == CleaningUp ~> (status = "ok")

\* a pass over a raw script of OptimizedDiff that shifted, so that the
\* cleanup runs again
C14_Witness ==
  /\ calls = <<"OptimizedDiff", "MergeShiftDiffCleanup">>
  /\ status = "again"
  /\ Len(Edits) >= 3

\* C15: every Edit of the raw script OptimizedDiff leaves (before any
\* cleanup) has non-empty Data, the edits of a sandwich included.
C15_RawNonEmpty == After("OptimizedDiff") => AllNonEmpty(Edits)

\* C16: when the Edits left at the end of Diff, OptimizedDiff or
\* MergeShiftDiffCleanup fail to reproduce the old text or the new text, the
\* stage's "Edits add up to original text" assertion fails: a stage that
\* returns has left Edits that reproduce both texts.
AssertingStages == {"Diff", "OptimizedDiff", "MergeShiftDiffCleanup"}

C16_AssertionCatchesEither ==
  (calls # <<>> /\ calls[Len(calls)] \in AssertingStages /\ status = "ok") =>
     (rebuildOld(Edits) = OldStr /\ rebuildNew(Edits) = NewStr)

\* C17: Diff() and LineDiff() on a fresh Differ never fail an
\* invariant.Always of the cleanup pass (Old and New non-empty when 3 or
\* more edits are cleaned up, 3 or more edits after the merge, no Retain
\* between two Retains in the shift) and never slice out of range: the call
\* returns, unless the assertion of OptimizedDiff has stopped it before the
\* cleanup began.
C17_CleanupNeverFails ==
  /\ calls = <<"LineDiff">> => status = "ok"
  /\ calls = <<"Diff">> => (status = "ok" \/ OptimizedDiff(Fresh).st = "assert")

\* a LineDiff of two texts of several lines whose cleanup went over 3 or
\* more raw edits of the inner Differ, shifted, and ran again; Diff on the
\* same texts cleans up 3 or more raw edits as well
C17_Witness ==
  /\ After("LineDiff")
  /\ OldStr # NewStr /\ OldStr # <<>> /\ NewStr # <<>>
  /\ Len(OptimizedDiff(LineDiffer(Fresh)).Edits) >= 3
  /\ MergeShiftDiffCleanup(LineDiffer(Fresh), OptimizedDiff(LineDiffer(Fresh)).Edits).passes >= 2
  /\ Len(OptimizedDiff(Fresh).Edits) >= 3

\* ---- the cleanup applied to edits set by the caller -----------------------
\* Edits is an exported field: a Differ made by New(old, new) whose Edits the
\* caller has set to a script of 3 to MaxEdits edits, each with 1 to MaxPiece
\* letters, that adds up to old and new
MaxEdits == 4
MaxPiece == 2

Kinds == {EditRetain, EditDelete, EditInsert}
Pieces == StringsOver(Letters, MaxPiece) \ {<<>>}
Scripts == UNION {[1..n -> [Kind : Kinds, Data : Pieces]] : n \in 3..MaxEdits}

ScriptInit ==
  \E es \in Scripts :
     /\ ConcatData(es, OldSide) # <<>>
     /\ ConcatData(es, NewSide) # <<>>
     /\ Old = ConcatData(es, OldSide)
     /\ New = ConcatData(es, NewSide)
     /\ OldStr = StringOf(ConcatData(es, OldSide))
     /\ NewStr = StringOf(ConcatData(es, NewSide))
     /\ Edits = es
     /\ calls = <<>>
     /\ limit = 1
     /\ peer = NoPeer
     /\ heap = EmptyHeap
     /\ out = <<>>
     /\ status = "ok"

\* one call of MergeShiftDiffCleanup, as a whole or closure by closure
ScriptNext ==
  \/ CallMergeShiftDiffCleanup
  \/ CleanupMergeStep
  \/ CleanupShiftStep
  \/ CleanupMergeAgain

ScriptSpec == ScriptInit /\ [][ScriptNext]_vars

\* C19: MergeShiftDiffCleanup on a Differ with non-empty Old and New whose 3
\* or more non-empty Edits add up to Old and New leaves Edits that add up to
\* Old and New, also when the delete run and the insert run share a prefix or
\* a suffix that the merge moves to a Retain.
C19_CleanupKeepsRoundTrip ==
  After("MergeShiftDiffCleanup") =>
    (ConcatData(Edits, OldSide) = Old /\ ConcatData(Edits, NewSide) = New)

\* C20: in the merge step, when the delete run and the insert run before a
\* Retain R share a common suffix s (what is left of them behind their common
\* prefix), the Retain emitted for R carries s followed by R's symbols, and
\* the runs flushed before it are the runs without s.  Stated for the merge
\* closure run on a script Delete, Insert, Retain.
RunBehindPrefix(run, other) ==
  SubSeq(run, Len(findCommonPrefix(run, other)) + 1, Len(run))

RunsSuffix(es) ==
  findCommonSuffix(RunBehindPrefix(es[2].Data, es[1].Data),
                   RunBehindPrefix(es[1].Data, es[2].Data))

MergesRunsBeforeRetain ==
  /\ status = "ok"
  /\ status' = "merged"
  /\ Len(Edits) = 3
  /\ Edits[1].Kind = EditDelete
  /\ Edits[2].Kind = EditInsert
  /\ Edits[3].Kind = EditRetain
  /\ RunsSuffix(Edits) # <<>>

WithoutSuffix(run, suffix) == SubSeq(run, 1, Len(run) - Len(suffix))

C20_SuffixLeadsRetain ==
  [][MergesRunsBeforeRetain =>
       /\ Edits'[4] = Edit(EditRetain, RunsSuffix(Edits) \o Edits[3].Data)
       /\ Edits'[2] = Edit(EditDelete,
            WithoutSuffix(RunBehindPrefix(Edits[1].Data, Edits[2].Data), RunsSuffix(Edits)))
       /\ Edits'[3] = Edit(EditInsert,
            WithoutSuffix(RunBehindPrefix(Edits[2].Data, Edits[1].Data), RunsSuffix(Edits)))]_vars

\* ---- two Differs in one process -------------------------------------------
\* the old texts have up to MaxPairOld letters, the new texts up to MaxPairNew
MaxPairOld == 3
MaxPairNew == 2

\* New is called twice; the client of each Differ runs the pipeline on it,
\* OptimizedDiff and then MergeShiftDiffCleanup (lines 129-130)
PairInit ==
  \E old, peerOld \in StringsOver(Letters, MaxPairOld),
     new, peerNew \in StringsOver(Letters, MaxPairNew) :
     HeapInit(HeapNew(HeapNew(EmptyHeap, old, new), peerOld, peerNew), PipelineStages)

PairOptimizedDiff == \E i \in Differs : CallsOf(i) = <<>> /\ RunOptimizedDiff(i)
PairCleanupMerge ==
  \E i \in Differs : CallsOf(i) = <<"OptimizedDiff">> /\ RunCleanupMerge(i)
PairCleanupShift == \E i \in Differs : RunCleanupShift(i)
PairCleanupAgain == \E i \in Differs : RunCleanupAgain(i)

\* the steps of the two pipelines in any order, the closures of a cleanup of
\* one Differ among those of the other
PairNext ==
  \/ PairOptimizedDiff
  \/ PairCleanupMerge
  \/ PairCleanupShift
  \/ PairCleanupAgain

PairSpec == PairInit /\ [][PairNext]_vars

\* the moments MergeShiftDiffCleanup on the Differ d passes through closure
\* by closure when nothing else runs: how each closure ends and the Edits it
\* leaves
RECURSIVE CleanupMoments(_)
CleanupMoments(d) ==
  With(CleanupMerge(d), LAMBDA a :
    IF a.st # "merged" THEN {a}
    ELSE With(CleanupShift([d EXCEPT !.Edits = a.Edits]), LAMBDA b :
           IF b.st # "again" THEN {a, b}
           ELSE {a, b} \cup CleanupMoments([d EXCEPT !.Edits = b.Edits])))

\* the stage name as a whole on the Differ d alone
StageAlone(d, name) ==
  IF name = "OptimizedDiff" THEN OptimizedDiff(d) ELSE MergeShiftDiffCleanup(d, d.Edits)

\* the moments the last of the calls cs passes through when they are made
\* one after the other on the Differ d, nothing else running
RECURSIVE Alone(_, _)
Alone(d, cs) ==
  IF cs = <<>> THEN {[st |-> "ok", Edits |-> d.Edits]}
  ELSE IF Len(cs) = 1
  THEN IF Head(cs) = "OptimizedDiff" THEN {OptimizedDiff(d)} ELSE CleanupMoments(d)
  ELSE With(StageAlone(d, Head(cs)),
            LAMBDA r : IF r.st # "ok" THEN {}
                       ELSE Alone([d EXCEPT !.Edits = r.Edits], Tail(cs)))

PeerFresh ==
  [Edits |-> <<>>, Old |-> Runes(peer.OldStr), New |-> Runes(peer.NewStr),
   OldStr |-> peer.OldStr, NewStr |-> peer.NewStr]

\* the arrays the Differ i of the heap h reaches: through its three slices
\* and through the Data of its Edits
RuneArraysOf(h, i) ==
  ({h.differs[i].Old.arr, h.differs[i].New.arr}
     \cup {RawEdits(h, h.differs[i].Edits)[j].Data.arr : j \in 1..h.differs[i].Edits.len})
  \ {0}

OwnStorage(h, i) ==
  /\ \A k \in RuneArraysOf(h, i) : h.runes[k].own = i
  /\ h.differs[i].Edits.arr # 0 => h.edits[h.differs[i].Edits.arr].own = i

\* C18: when two distinct Differs run their stages (OptimizedDiff,
\* MergeShiftDiffCleanup) interleaved in any order, each has at every moment
\* the Edits its own stages leave at a moment of their run on it alone, its
\* sequences are those of its own strings, and every array it reaches was
\* allocated for it.
C18_PairAsAlone ==
  /\ [st |-> status, Edits |-> Edits] \in Alone(Fresh, calls)
  /\ [st |-> peer.status, Edits |-> peer.Edits] \in Alone(PeerFresh, peer.calls)
  /\ Old = Runes(OldStr) /\ New = Runes(NewStr)
  /\ peer.Old = Runes(peer.OldStr) /\ peer.New = Runes(peer.NewStr)
  /\ OwnStorage(heap, 1) /\ OwnStorage(heap, 2)

\* both Differs, made of different texts, have run the whole pipeline, the
\* cleanup of each has shifted, and the closures of the one ran among those
\* of the other: an array of Edits of the second Differ lies between two of
\* the first, and one of the first between two of the second
C18_Witness ==
  /\ calls = <<"OptimizedDiff", "MergeShiftDiffCleanup">>
  /\ peer.calls = <<"OptimizedDiff", "MergeShiftDiffCleanup">>
  /\ status = "ok" /\ peer.status = "ok"
  /\ OldStr # peer.OldStr /\ NewStr # peer.NewStr
  /\ Edits # OptimizedDiff(Fresh).Edits
  /\ peer.Edits # OptimizedDiff(PeerFresh).Edits
  /\ \E j, k, l, n \in 1..Len(heap.edits) :
        /\ j < k /\ k < l /\ l < n
        /\ heap.edits[j].own = 1 /\ heap.edits[k].own = 2
        /\ heap.edits[l].own = 1 /\ heap.edits[n].own = 2
  /\ \E k \in RuneArraysOf(heap, 1) : k \notin {heap.differs[1].Old.arr, heap.differs[1].New.arr}
  /\ \E k \in RuneArraysOf(heap, 2) : k \notin {heap.differs[2].Old.arr, heap.differs[2].New.arr}

\* the state of the merge loop as it comes to the edit es[i]
MergeStateAt(d, es, i) == Merge(d, SubSeq(es, 1, i - 1))

\* the pending runs as the loop holds them there: slices of Old and of New
\* from the running offsets
ToDeleteAt(d, es, i) ==
  SubSeq(Backing(d.Old), MergeStateAt(d, es, i).oOff + 1,
         MergeStateAt(d, es, i).oOff + MergeStateAt(d, es, i).td)
ToInsertAt(d, es, i) ==
  SubSeq(Backing(d.New), MergeStateAt(d, es, i).nOff + 1,
         MergeStateAt(d, es, i).nOff + MergeStateAt(d, es, i).ti)

\* the Data of the edits of the kinds in kinds between the Retain before
\* es[i] and es[i]
RunSinceRetain(es, i, kinds) ==
  LET before == {j \in 0..(i - 1) : j = 0 \/ es[j].Kind = EditRetain}
      last == CHOOSE j \in before : \A k \in before : k <= j
  IN ConcatData(SubSeq(es, last + 1, i - 1), kinds)

\* the merge closure begins on the script the caller has set
MergeBegins == status = "ok" /\ status' = "merged"

\* C21: in the merge step, at every Retain boundary of a script that adds up
\* to the texts, toDelete equals the Data of the Delete edits seen since the
\* previous Retain and toInsert the Data of the Insert edits seen since,
\* also at a boundary that follows one where a common prefix was moved.
C21_RunsAreTheEdits ==
  [][MergeBegins =>
       \A i \in 1..Len(WithSentinels(Edits)) :
          (WithSentinels(Edits)[i].Kind = EditRetain
             /\ MergeStateAt(Self, WithSentinels(Edits), i).st = "ok") =>
            /\ ToDeleteAt(Self, WithSentinels(Edits), i)
                 = RunSinceRetain(WithSentinels(Edits), i, {EditDelete})
            /\ ToInsertAt(Self, WithSentinels(Edits), i)
                 = RunSinceRetain(WithSentinels(Edits), i, {EditInsert})]_vars

\* whether the iteration of the shift loop at offset shifts, and the number
\* of iterations from offset on that do
ShiftsAt(z, offset) == ShiftStep([z EXCEPT !.isShifted = FALSE], offset).isShifted

RECURSIVE ShiftCount(_, _)
ShiftCount(z, offset) ==
  IF offset > Len(z.es) - 2 \/ z.st # "ok" THEN 0
  ELSE With(ShiftStep(z, offset),
            LAMBDA z1 : (IF ShiftsAt(z, offset) THEN 1 ELSE 0) + ShiftCount(z1, offset + 1))

ShiftsOf(es) ==
  ShiftCount([st |-> "ok", es |-> es, result |-> <<es[1]>>, isShifted |-> FALSE], 1)

\* the shift closure runs over the merged script and comes to its end
ShiftPassRuns ==
  /\ status = "merged"
  /\ AllNonEmpty(WithoutSentinels(Edits))
  /\ Shift(WithoutSentinels(Edits)).st = "ok"

\* C22: a shift pass leaves both reconstructions as they were (the
\* Retain+Delete data and the Retain+Insert data of the script after the pass
\* equal those before it) and removes exactly one edit per shift.
C22_ShiftKeepsTexts ==
  [][ShiftPassRuns =>
       /\ ConcatData(Edits', OldSide) = ConcatData(Edits, OldSide)
       /\ ConcatData(Edits', NewSide) = ConcatData(Edits, NewSide)
       /\ Len(Edits') = Len(WithoutSentinels(Edits)) - ShiftsOf(WithoutSentinels(Edits))]_vars

\* a pass has shifted, and the Retain the script began with has become a
\* Delete or an Insert
C22_Witness ==
  /\ status = "again"
  /\ Edits[1].Kind # EditRetain
  /\ OptimizedDiff(Fresh).Edits[1].Kind = EditRetain

\* ---- the forward pass seen through its trace -----------------------------
\* the tracker as depth d finds it: zeroes at depth 0, else the copy the
\* trace holds of depth d - 1
TrackerBefore(f, maxEdits, d) ==
  IF d = 0 THEN [i \in 0..(2 * maxEdits) |-> 0] ELSE f.trace[d]

\* the diagonals the loop visits at depth d: every second one from -d to d,
\* up to the one it stops on at the last depth
Visited(f, d, k) ==
  /\ (k + d) % 2 = 0
  /\ (d < f.depth \/ k <= f.x - f.y)

\* the tracker indexes the iteration (d, k) reads and writes
TrackerIndexes(maxEdits, d, k) ==
  {maxEdits + k}
  \cup (IF k # -d /\ k # d THEN {maxEdits + k + 1, maxEdits + k - 1}
        ELSE IF k = -d THEN {maxEdits + k + 1} ELSE {maxEdits + k - 1})
  \cup (IF k < d THEN {maxEdits + k + 1} ELSE {})
  \cup (IF k > -d THEN {maxEdits + k - 1} ELSE {})

\* the start point the iteration (d, k) chooses
StartOf(t, maxEdits, d, k) ==
  IF k = -d \/ (k # d /\ t[maxEdits + k + 1] > t[maxEdits + k - 1])
  THEN t[maxEdits + k + 1]
  ELSE t[maxEdits + k - 1] + 1

VisitInBounds(t, maxEdits, d, k) ==
  /\ TrackerIndexes(maxEdits, d, k) \subseteq 0..(2 * maxEdits)
  /\ StartOf(t, maxEdits, d, k) >= k
  /\ (k < d => StartOf(t, maxEdits, d, k) >= t[maxEdits + k + 1])
  /\ (k > -d => StartOf(t, maxEdits, d, k) >= t[maxEdits + k - 1])

ForwardInBounds(f, maxEdits) ==
  /\ f.st \in {"done", "exhausted"}
  /\ \A d \in 0..Min(f.depth, maxEdits) : \A k \in (-d)..d :
        Visited(f, d, k) => VisitInBounds(TrackerBefore(f, maxEdits, d), maxEdits, d, k)

\* C23: in the solver's forward pass every tracker index read or written
\* lies in 0..2*(|old|+|new|), the start point has x >= k, and x is at least
\* the furthest x of the depth before on the diagonal above (k < d) and below
\* (k > -d); in the backward walk every one-symbol slice of old or new lies
\* within the sequence (the call returns, with no panic and no failed
\* assertion), for the solver called directly and called by OptimizedDiff.
C23_SolverInBounds ==
  /\ (calls = <<"AlgorithmDiff">> /\ SearchLoopRuns) =>
        (status = "ok" /\ ForwardInBounds(ForwardPass(Old, New), Len(Old) + Len(New)))
  /\ calls = <<"OptimizedDiff">> => status = "ok"

\* the solver has gone 4 depths deep on sequences of different lengths and
\* walked back a script with Inserts and Deletes
C23_Witness ==
  /\ After("AlgorithmDiff")
  /\ SearchLoopRuns
  /\ Len(Old) # Len(New)
  /\ ForwardPass(Old, New).depth >= 4
  /\ HasKind(Edits, EditInsert) /\ HasKind(Edits, EditDelete)

\* C24: the solver's search loop stops by reaching the corner, at a depth of
\* at most |old| + |new| (it never runs out of depths), and the point it
\* stops on is exactly x = |old|, y = |new|.  Checked for the loop run on
\* every pair of sequences that are not both empty, the pairs with one empty
\* sequence (which reach the loop from OptimizedDiff) included.
StopsAtCorner(f, old, new) ==
  /\ f.st = "done"
  /\ f.depth <= Len(old) + Len(new)
  /\ f.x = Len(old)
  /\ f.y = Len(new)

C24_StopsAtCorner ==
  (calls = <<"AlgorithmDiff">> /\ (Old # <<>> \/ New # <<>>)) =>
    StopsAtCorner(ForwardPass(Old, New), Old, New)

\* the loop has run on sequences with no symbol in common and stopped at the
\* last depth there is
C24_Witness ==
  /\ After("AlgorithmDiff")
  /\ SearchLoopRuns
  /\ LCS(Old, New) = 0
  /\ Len(Old) >= 2 /\ Len(New) >= 2
  /\ ForwardPass(Old, New).depth = Len(Old) + Len(New)

\* C25: OptimizedDiff and AlgorithmDiff only append: the edits that were in
\* Edits before the call are still there after it, unchanged and at the same
\* index, and what the call adds follows them (it is the script the call
\* leaves on a Differ without edits: the reversal of AlgorithmDiff and the
\* order left half, Retain, right half of the split are those of that script).
AppendingStages == {"OptimizedDiff", "AlgorithmDiff"}

StageAppends ==
  /\ calls' # calls
  /\ calls'[Len(calls')] \in AppendingStages
  /\ status' = "ok"

C25_StagesOnlyAppend ==
  [][StageAppends =>
       /\ Len(Edits') >= Len(Edits)
       /\ SubSeq(Edits', 1, Len(Edits)) = Edits
       /\ SubSeq(Edits', Len(Edits) + 1, Len(Edits'))
            = (IF calls'[Len(calls')] = "OptimizedDiff"
                 THEN OptimizedDiff(Fresh) ELSE AlgorithmDiff(Fresh)).Edits]_vars

\* the solver has appended a script of several edits behind the raw script
\* OptimizedDiff had left
C25_Witness ==
  /\ calls = <<"OptimizedDiff", "AlgorithmDiff">>
  /\ status = "ok"
  /\ SearchLoopRuns
  /\ Len(OptimizedDiff(Fresh).Edits) >= 2
  /\ Len(Edits) >= Len(OptimizedDiff(Fresh).Edits) + 3

\* C26: whenever the search loop of the solver runs, during Diff() or on a
\* direct AlgorithmDiff() call on a fresh Differ, the sequences old and new
\* it is given differ, so the loop stops at a depth of at least 1 and the
\* solver's edits hold an Insert or a Delete.

\* the early returns of AlgorithmDiff (lines 443-462) let the clone of d with
\* the sequences old and new through to the loop
LoopRunsOn(d, old, new) ==
  /\ ~(Len(old) = 0 /\ Len(new) = 0)
  /\ ~(d.OldStr = d.NewStr /\ d.OldStr # <<>>)
  /\ d.NewStr # <<>>
  /\ d.OldStr # <<>>

\* the pairs of sequences the closure recurse (lines 377-410), started on
\* old and new, hands to the loop of the solver
RECURSIVE LoopInputs(_, _, _)
LoopInputsSplit(d, old, new, substr) ==
  LET newSubstrStart == runesIndex(new, substr)
      oldSubstrStart == runesIndex(old, substr)
  IN LoopInputs(d, SubSeq(old, 1, oldSubstrStart), SubSeq(new, 1, newSubstrStart))
       \cup LoopInputs(d, SubSeq(old, oldSubstrStart + Len(substr) + 1, Len(old)),
                          SubSeq(new, newSubstrStart + Len(substr) + 1, Len(new)))

LoopInputs(d, old, new) ==
  With(findCommonSubstring(old, new),
       LAMBDA substr :
         IF Len(substr) = 0
         THEN IF LoopRunsOn(d, old, new) THEN {<<old, new>>} ELSE {}
         ELSE LoopInputsSplit(d, old, new, substr))

\* the remainders between the common prefix and suffix (lines 330-344) go to
\* recurse when they are no simple delete, insert or sandwich (lines 346-376)
MiddleInputs(d, old, new) ==
  IF Len(old) = 0 \/ Len(new) = 0 THEN {}
  ELSE IF runesIndex(old, new) > 0 \/ runesIndex(new, old) > 0 THEN {}
  ELSE LoopInputs(d, old, new)

TrimmedInputs(d, old1, new1) ==
  With(findCommonSuffix(old1, new1), LAMBDA suffix :
    MiddleInputs(d, SubSeq(old1, 1, Len(old1) - Len(suffix)),
                    SubSeq(new1, 1, Len(new1) - Len(suffix))))

\* the pairs the loop of the solver runs on during OptimizedDiff on d
SolverInputs(d) ==
  IF d.OldStr = d.NewStr \/ d.NewStr = <<>> \/ d.OldStr = <<>> THEN {}
  ELSE With(findCommonPrefix(d.Old, d.New), LAMBDA prefix :
         TrimmedInputs(d, SubSeq(d.Old, Len(prefix) + 1, Len(d.Old)),
                          SubSeq(d.New, Len(prefix) + 1, Len(d.New))))

\* the loop, run on old and new, stops at a depth of at least 1 and the walk
\* back yields an Insert or a Delete
LoopMakesAnEdit(d, old, new) ==
  /\ old # new
  /\ ForwardPass(old, new).depth >= 1
  /\ With(AlgorithmDiffBody([Edits |-> <<>>, Old |-> old, New |-> new,
                             OldStr |-> d.OldStr, NewStr |-> d.NewStr]).Edits,
          LAMBDA es : HasKind(es, EditInsert) \/ HasKind(es, EditDelete))

C26_LoopInputsDiffer ==
  /\ (calls = <<"AlgorithmDiff">> /\ LoopRunsOn(Fresh, Old, New))
       => LoopMakesAnEdit(Fresh, Old, New)
  /\ calls = <<"Diff">>
       => \A p \in SolverInputs(Fresh) : LoopMakesAnEdit(Fresh, p[1], p[2])

\* the split of Diff() handed two pairs of remainders to the solver
C26_Witness ==
  /\ After("Diff")
  /\ Cardinality(SolverInputs(Fresh)) >= 2

\* C27: in LineDiff the mapping of lines to symbols is a bijection: the
\* symbols that stand for two lines of old or new in Old and New of the inner
\* Differ (written to a string and decoded back) are equal exactly when the
\* lines are equal, and the reverse map gives for a symbol the line it was
\* assigned to.

\* the symbol in the inner Differ of a line that is in the table t
SymbolOf(t, line) == Runes(LineSymbols(t, <<line>>))[1]

\* the lines behind the numbered ones with their symbols in the inner
\* Differ, and the last numbered line with its symbol
MappedLines(t) ==
  {<<OldStr.lines[i], peer.Old[i]>> : i \in 1..Len(OldStr.lines)}
    \cup {<<NewStr.lines[i], peer.New[i]>> : i \in 1..Len(NewStr.lines)}
    \cup {<<Numeral(n - 1), SymbolOf(t, Numeral(n - 1))>> : n \in {OldStr.numbered} \ {0}}

SymbolsAreABijection(t) ==
  /\ \A p, q \in MappedLines(t) : (p[2] = q[2]) <=> (p[1] = q[1])
  /\ \A p \in MappedLines(t) : runeToLine(t, p[2]) = p[1]

C27_SymbolsAreABijection ==
  status = "mapped" => With(ManyTable(OldStr, NewStr), SymbolsAreABijection)

\* two different lines of a short text have their symbols
C27_Witness ==
  /\ status = "mapped"
  /\ OldStr.numbered = 0
  /\ Len(peer.Old) = 2 /\ peer.Old[1] # peer.Old[2]
  /\ Len(peer.New) = 2 /\ peer.New[1] # peer.New[2]
  /\ peer.New[1] \notin {peer.Old[1], peer.Old[2]}

\* C28: in the script Diff() leaves, and so in the output of LineDiff(), an
\* Insert edit is never immediately followed by a Delete edit: between two
\* Retain edits there is at most one Delete, followed by at most one Insert.
InsertThenDelete(es) ==
  \E i \in 1..(Len(es) - 1) : es[i].Kind = EditInsert /\ es[i + 1].Kind = EditDelete

DeleteThenInsert(es) ==
  \E i \in 1..(Len(es) - 1) : es[i].Kind = EditDelete /\ es[i + 1].Kind = EditInsert

\* an added line of the output immediately followed by a removed one
PlusThenMinus(ls) ==
  \E i \in 1..(Len(ls) - 1) :
     /\ ls[i] # <<>> /\ ls[i][1] = Plus
     /\ ls[i + 1] # <<>> /\ ls[i + 1][1] = Minus

C28_DeleteBeforeInsert ==
  /\ After("Diff") =>
       /\ ~InsertThenDelete(Edits)
       /\ \A i \in 1..(Len(Edits) - 1) :
            Edits[i].Kind = Edits[i + 1].Kind => Edits[i].Kind = EditRetain
  /\ After("LineDiff") => (~InsertThenDelete(Edits) /\ ~PlusThenMinus(OutLines))

\* the cleanup has merged edits of the raw script, and the script Diff()
\* leaves has a Delete and an Insert between two Retain edits
C28_Witness ==
  /\ After("Diff")
  /\ Len(OptimizedDiff(Fresh).Edits) > Len(Edits)
  /\ DeleteThenInsert(Edits)
  /\ Edits[1].Kind = EditRetain
  /\ Edits[Len(Edits)].Kind = EditRetain

\* C29: Diff() is idempotent on a Differ: a second Diff() on the same Differ,
\* without Reset, returns the string the first call returned and leaves
\* Edits adding up to Old and to New (no second copy of the script is put
\* behind the first).
C29_DiffIdempotent ==
  calls = <<"Diff", "Diff">> =>
    /\ status = "ok"
    /\ out = Diff(Fresh).out
    /\ ConcatData(Edits, OldSide) = Old
    /\ ConcatData(Edits, NewSide) = New

\* C30: after LineDiff() returns, the Edits of the Differ add up to its own
\* Old and New: the Data of the Retain and Delete edits is Old, that of the
\* Retain and Insert edits is New (String() renders a script over the text).
C30_LineDiffRoundTrip ==
  After("LineDiff") =>
    /\ ConcatData(Edits, OldSide) = Old
    /\ ConcatData(Edits, NewSide) = New
====
